---- MODULE Spec2Model ----
(***************************************************************************)
(* A model of rslox: the scanner (src/src/scanner), the recursive-descent  *)
(* parser (src/src/parser), the error reports (src/src/error.rs), the      *)
(* interpreter (src/src/interpreter) and the runs of main (src/src/main.rs)*)
(*                                                                         *)
(* Source text is a sequence of one-character strings.  A lexeme is a      *)
(* sequence of characters as well, so that substrings, prefixes and the    *)
(* stripping of quotes are computed and not assumed.                       *)
(***************************************************************************)
EXTENDS Integers, Sequences, FiniteSets, TLC

VARIABLES
    src,        \* Scanner.source: the text handed to Scanner::new
    chars,      \* TokenStream.chars: the characters not yet consumed
    lead,       \* TokenStream.lead: leading character of a multi-char token
    line,       \* TokenStream.line
    at_end,     \* TokenStream.at_end
    out,        \* history: every Some(item) that next() has returned, in order
    upto,       \* history: number of characters consumed when out[k] was returned
    lines,      \* history: the line counter when out[k] was returned
    nones,      \* history: how many times next() has returned None
    panicked,   \* the process aborted in an expect()/unwrap()
    tokens,     \* Parser.tokens: the tokens not yet consumed by the parser
    input,      \* history: the token list handed to Parser::from
    parsed,     \* outcome of Parser::parse, NotParsed before the call
    tree,       \* the expression handed to Interpreter::interpret
    evaluated,  \* outcome of Interpreter::evaluate, NotEvaluated before the call
    command,    \* main: the subcommand of the run
    readable,   \* main: whether read_file can read the file
    pc,         \* main: the stage the run is in
    has_error,  \* tokenize: the local has_error
    stdout,     \* main: the lines written to standard output, in order
    stderr,     \* main: the lines written to standard error, in order
    exit        \* main: the exit code of the process, Running before it ends

vars == <<src, chars, lead, line, at_end, out, upto, lines, nones, panicked,
          tokens, input, parsed, tree, evaluated, command, readable, pc,
          has_error, stdout, stderr, exit>>

scanVars == <<src, chars, lead, line, at_end, out, upto, lines, nones,
              panicked>>
parseVars == <<tokens, input, parsed>>
evalVars == <<tree, evaluated>>
mainVars == <<command, readable, pc, has_error, stdout, stderr, exit>>

-----------------------------------------------------------------------------
(* Bounds of the model *)

\* longest source text enumerated exhaustively over Alphabet
MaxLen == 3
\* how many times next() is called again after it has returned None
MaxNoneCalls == 2

-----------------------------------------------------------------------------
(* Characters *)

DigitChars == <<"0", "1", "2", "3", "4", "5", "6", "7", "8", "9">>

LowerChars ==
    {"a", "b", "c", "d", "e", "f", "g", "h", "i", "j", "k", "l", "m",
     "n", "o", "p", "q", "r", "s", "t", "u", "v", "w", "x", "y", "z"}

UpperChars ==
    {"A", "B", "C", "D", "E", "F", "G", "H", "I", "J", "K", "L", "M",
     "N", "O", "P", "Q", "R", "S", "T", "U", "V", "W", "X", "Y", "Z"}

\* char::is_ascii_digit
is_ascii_digit(c) == \E i \in 1..10 : DigitChars[i] = c

\* char::is_ascii_alphanumeric
is_ascii_alphanumeric(c) ==
    is_ascii_digit(c) \/ c \in LowerChars \/ c \in UpperChars

\* the pattern '_' | 'a'..='z' | 'A'..='Z' of TokenStream::next
is_identifier_start(c) == c = "_" \/ c \in LowerChars \/ c \in UpperChars

\* the closure |c| *c == '_' || c.is_ascii_alphanumeric() of identifier()
\* a continuation test without the underscore
is_identifier_part_plain(c) == is_ascii_alphanumeric(c)

is_identifier_part(c) == c = "_" \/ is_ascii_alphanumeric(c)

\* Option<char>::None for TokenStream.lead
NoChar == ""

-----------------------------------------------------------------------------
(* Tokens, literals and reports *)

NoLiteral == [tag |-> "None"]
NumberLiteral(m, e) == [tag |-> "Number", mant |-> m, exp |-> e]
StringLiteral(s) == [tag |-> "String", text |-> s]

\* Token::new
Token(typ, lexeme, literal, ln) ==
    [typ |-> typ, lexeme |-> lexeme, literal |-> literal, line |-> ln]

\* Token::new_eof
new_eof(ln) == Token("EOF", <<>>, NoLiteral, ln)

\* Report::error_at_line (called Report::error by the scanner)
error_at_line(ln, message) ==
    [line |-> ln, location |-> <<>>, message |-> message]

\* Report::error_at_token
error_at_token(token, message) ==
    [line |-> token.line,
     location |-> IF token.typ = "EOF"
                  THEN <<" at end">>
                  ELSE <<" at '", token.lexeme, "'">>,
     message |-> message]

\* ScanResult::Ignore, ScanResult::ok, ScanResult::err
Ignore == [kind |-> "Ignore"]
ScanOk(token) == [kind |-> "Ok", token |-> token]
ScanErr(report) == [kind |-> "Err", report |-> report]

IsToken(item) == item.kind = "Ok"
IsTokenOf(item, typ) == item.kind = "Ok" /\ item.token.typ = typ
IsError(item) == item.kind = "Err"

\* the KEYWORDS table: lexeme -> TokenType
KEYWORDS ==
    {<< <<"a", "n", "d">>, "AND" >>,
     << <<"c", "l", "a", "s", "s">>, "CLASS" >>,
     << <<"e", "l", "s", "e">>, "ELSE" >>,
     << <<"f", "a", "l", "s", "e">>, "FALSE" >>,
     << <<"f", "o", "r">>, "FOR" >>,
     << <<"f", "u", "n">>, "FUN" >>,
     << <<"i", "f">>, "IF" >>,
     << <<"n", "i", "l">>, "NIL" >>,
     << <<"o", "r">>, "OR" >>,
     << <<"p", "r", "i", "n", "t">>, "PRINT" >>,
     << <<"r", "e", "t", "u", "r", "n">>, "RETURN" >>,
     << <<"s", "u", "p", "e", "r">>, "SUPER" >>,
     << <<"t", "h", "i", "s">>, "THIS" >>,
     << <<"t", "r", "u", "e">>, "TRUE" >>,
     << <<"v", "a", "r">>, "VAR" >>,
     << <<"w", "h", "i", "l", "e">>, "WHILE" >>}

\* KEYWORDS.get(lexeme).cloned().unwrap_or(TokenType::Identifier)
keyword_or_identifier(lexeme) ==
    IF \E kw \in KEYWORDS : kw[1] = lexeme
    THEN (CHOOSE kw \in KEYWORDS : kw[1] = lexeme)[2]
    ELSE "IDENTIFIER"

-----------------------------------------------------------------------------
(* str::parse::<f64> on the lexemes number() can build.  A value is kept   *)
(* as a normalised decimal mant * 10^exp (mant not divisible by 10, or     *)
(* mant = 0 and exp = 0), so equal numbers are equal records.              *)

DigitVal(c) == (CHOOSE i \in 1..10 : DigitChars[i] = c) - 1

\* number of leading characters of s, from index i on, that are digits
RECURSIVE DigitRun(_, _)
DigitRun(s, i) ==
    IF i <= Len(s) /\ is_ascii_digit(s[i]) THEN 1 + DigitRun(s, i + 1) ELSE 0

\* value of the digit string s[i..j]
RECURSIVE DigitsValue(_, _, _)
DigitsValue(s, i, j) ==
    IF j < i THEN 0 ELSE 10 * DigitsValue(s, i, j - 1) + DigitVal(s[j])

RECURSIVE Normalise(_, _)
Normalise(m, e) ==
    IF m = 0 THEN NumberLiteral(0, 0)
    ELSE IF m % 10 = 0 THEN Normalise(m \div 10, e + 1)
    ELSE NumberLiteral(m, e)

\* f64::from_str accepts here: digits [ '.' digits ] [ (e|E) digits ].
\* Each operator gives the index after the part that starts at index i.
AfterDigits(s, i) == i + DigitRun(s, i)

AfterFraction(s, i) ==
    IF i <= Len(s) /\ s[i] = "." THEN AfterDigits(s, i + 1) ELSE i

AfterExponent(s, i) ==
    IF i <= Len(s) /\ s[i] \in {"e", "E"} THEN AfterDigits(s, i + 1) ELSE i

\* a: index after the integer digits, b: after the fraction, c: after the exponent
FloatOk(s, a, b, c) ==
    /\ (a - 1) + (IF b > a THEN b - a - 1 ELSE 0) >= 1
    /\ c > b => c > b + 1
    /\ c = Len(s) + 1

FloatValue(s, a, b, c) ==
    Normalise(
        DigitsValue(SubSeq(s, 1, a - 1) \o SubSeq(s, a + 1, b - 1), 1,
                    (a - 1) + (IF b > a THEN b - a - 1 ELSE 0)),
        (IF c > b THEN DigitsValue(s, b + 1, c - 1) ELSE 0)
            - (IF b > a THEN b - a - 1 ELSE 0))

FloatOkFrom(s, a) ==
    FloatOk(s, a, AfterFraction(s, a), AfterExponent(s, AfterFraction(s, a)))

FloatValueFrom(s, a) ==
    FloatValue(s, a, AfterFraction(s, a), AfterExponent(s, AfterFraction(s, a)))

\* lexeme.parse::<f64>() is Ok
parse_f64_ok(s) == FloatOkFrom(s, AfterDigits(s, 1))

\* the value of lexeme.parse::<f64>() when it is Ok
parse_f64(s) == FloatValueFrom(s, AfterDigits(s, 1))

-----------------------------------------------------------------------------
(* TokenStream.  A stream is the record of its four fields; every method   *)
(* is an operator from a stream to the stream it leaves and what it        *)
(* returns.                                                                *)

TokenStream(cs, ld, ln, ae) ==
    [chars |-> cs, lead |-> ld, line |-> ln, at_end |-> ae]

\* Scanner::scan_tokens
scan_tokens(source) == TokenStream(source, NoChar, 1, FALSE)

\* what a method hands back: the stream, the returned item, whether it panicked
Returned(ts, item) == [ts |-> ts, item |-> item, panic |-> FALSE]
NoItem == [kind |-> "None"]
Panicked(ts) == [ts |-> ts, item |-> NoItem, panic |-> TRUE]

\* TokenStream::make_token
make_token(ts, typ, lexeme) == Token(typ, lexeme, NoLiteral, ts.line)

\* TokenStream::make_token_from: the items collected into a String
make_token_from(ts, typ, value) == make_token(ts, typ, value)

\* TokenStream::make_literal_token
make_literal_token(ts, typ, lexeme, literal) ==
    Token(typ, lexeme, literal, ts.line)

\* TokenStream::next_match: chars.next_if_eq(&expected) is Some
next_match_some(ts, expected) ==
    ts.chars # <<>> /\ Head(ts.chars) = expected

\* TokenStream::peek_next: the character after the next one, NoChar if none
peek_next(ts) ==
    IF Len(ts.chars) >= 2 THEN ts.chars[2] ELSE NoChar

\* the stream after chars.next()
Advance(ts) == [ts EXCEPT !.chars = Tail(ts.chars)]

\* a comment loop that takes the line terminator with the comment
RECURSIVE skip_comment_through(_)
skip_comment_through(ts) ==
    IF ts.chars = <<>> THEN ts
    ELSE IF Head(ts.chars) = "\n" THEN Advance(ts)
    ELSE skip_comment_through(Advance(ts))

\* the loop  while let Some(c) = chars.next_if(|c| *c != '\n') {}  of a comment
RECURSIVE skip_comment(_)
skip_comment(ts) ==
    IF ts.chars # <<>> /\ Head(ts.chars) # "\n"
    THEN skip_comment(Advance(ts))
    ELSE ts

\* the loop of identifier(): [stream, lexeme] after it
RECURSIVE identifier_loop(_, _)
identifier_loop(ts, lexeme) ==
    IF ts.chars # <<>> /\ is_identifier_part(Head(ts.chars))
    THEN identifier_loop(Advance(ts), Append(lexeme, Head(ts.chars)))
    ELSE [ts |-> ts, lexeme |-> lexeme]

\* TokenStream::identifier
identifier(ts) ==
    LET taken == [ts EXCEPT !.lead = NoChar]
        r == identifier_loop(taken, <<ts.lead>>)
        typ == keyword_or_identifier(r.lexeme)
    IN  IF ts.lead = NoChar THEN Panicked(ts)
        ELSE Returned(r.ts, ScanOk(make_token(r.ts, typ, r.lexeme)))

\* the first loop of number(): chars.next_if(char::is_ascii_digit)
RECURSIVE integer_loop(_, _)
integer_loop(ts, lexeme) ==
    IF ts.chars # <<>> /\ is_ascii_digit(Head(ts.chars))
    THEN integer_loop(Advance(ts), Append(lexeme, Head(ts.chars)))
    ELSE [ts |-> ts, lexeme |-> lexeme]

\* the second loop of number(): chars.next_if(char::is_ascii_alphanumeric)
RECURSIVE fraction_loop(_, _)
fraction_loop(ts, lexeme) ==
    IF ts.chars # <<>> /\ is_ascii_alphanumeric(Head(ts.chars))
    THEN fraction_loop(Advance(ts), Append(lexeme, Head(ts.chars)))
    ELSE [ts |-> ts, lexeme |-> lexeme]

\* the condition under which number() takes the '.' into the lexeme
takes_fraction(ts) ==
    /\ ts.chars # <<>>
    /\ Head(ts.chars) = "."
    /\ peek_next(ts) # NoChar
    /\ is_ascii_digit(peek_next(ts))

\* the end of number(): f is [stream, lexeme] after both loops
number_token(f) ==
    IF ~parse_f64_ok(f.lexeme) THEN Panicked(f.ts)
    ELSE Returned(f.ts,
             ScanOk(make_literal_token(f.ts, "NUMBER", f.lexeme,
                                       parse_f64(f.lexeme))))

\* the middle of number(): i is [stream, lexeme] after the first loop
number_fraction(i) ==
    IF takes_fraction(i.ts)
    THEN number_token(fraction_loop(Advance(i.ts), Append(i.lexeme, ".")))
    ELSE number_token(i)

\* TokenStream::number
number(ts) ==
    IF ts.lead = NoChar THEN Panicked(ts)
    ELSE number_fraction(integer_loop([ts EXCEPT !.lead = NoChar], <<ts.lead>>))

\* the loop of string(): chars.next_if(|c| *c != '"'), counting newlines
RECURSIVE string_loop(_, _)
string_loop(ts, lexeme) ==
    IF ts.chars # <<>> /\ Head(ts.chars) # "\""
    THEN string_loop(
             [ts EXCEPT !.chars = Tail(ts.chars),
                        !.line = IF Head(ts.chars) = "\n" THEN @ + 1 ELSE @],
             Append(lexeme, Head(ts.chars)))
    ELSE [ts |-> ts, lexeme |-> lexeme]

\* a literal that keeps the quotes of the lexeme
string_literal_quoted(lexeme) == StringLiteral(lexeme)

\* Literal::from(&lexeme[1..lexeme.len() - 1])
string_literal(lexeme) == StringLiteral(SubSeq(lexeme, 2, Len(lexeme) - 1))

\* a string() that reports the line of the opening quote
string_opening_line(ts) ==
    LET taken == [ts EXCEPT !.lead = NoChar]
        r == string_loop(taken, <<ts.lead>>)
        closed == Append(r.lexeme, Head(r.ts.chars))
        after == Advance(r.ts)
    IN  IF ts.lead = NoChar THEN Panicked(ts)
        ELSE IF r.ts.chars = <<>>
        THEN Returned(r.ts,
                 ScanErr(error_at_line(ts.line, <<"Unterminated string.">>)))
        ELSE Returned(after,
                 ScanOk(make_literal_token(after, "STRING", closed,
                                           string_literal(closed))))

\* TokenStream::string
string(ts) ==
    LET taken == [ts EXCEPT !.lead = NoChar]
        r == string_loop(taken, <<ts.lead>>)
        closed == Append(r.lexeme, Head(r.ts.chars))
        after == Advance(r.ts)
    IN  IF ts.lead = NoChar THEN Panicked(ts)
        ELSE IF r.ts.chars = <<>>
        THEN Returned(r.ts,
                 ScanErr(error_at_line(r.ts.line, <<"Unterminated string.">>)))
        ELSE Returned(after,
                 ScanOk(make_literal_token(after, "STRING", closed,
                                           string_literal(closed))))

\* the one-character tokens of TokenStream::next
SingleCharTokens ==
    {<<"(", "LEFT_PAREN">>, <<")", "RIGHT_PAREN">>,
     <<"{", "LEFT_BRACE">>, <<"}", "RIGHT_BRACE">>,
     <<"*", "STAR">>, <<".", "DOT">>, <<",", "COMMA">>,
     <<"+", "PLUS">>, <<"-", "MINUS">>, <<";", "SEMICOLON">>}

SingleChars == {p[1] : p \in SingleCharTokens}

\* the characters that become a two-character token when '=' follows:
\* <<character, type alone, type with '='>>
OperatorTokens ==
    {<<"=", "EQUAL", "EQUAL_EQUAL">>, <<"!", "BANG", "BANG_EQUAL">>,
     <<"<", "LESS", "LESS_EQUAL">>, <<">", "GREATER", "GREATER_EQUAL">>}

OperatorChars == {p[1] : p \in OperatorTokens}

BlankChars == {" ", "\t", "\r"}

\* the arms '(' .. ';' of TokenStream::next; t is the stream after chars.next()
single_arm(t, c) ==
    LET typ == (CHOOSE p \in SingleCharTokens : p[1] = c)[2]
    IN  Returned(t, ScanOk(make_token(t, typ, <<c>>)))

\* an operator arm that never looks at the next character
operator_arm_short(t, c) ==
    LET p == CHOOSE q \in OperatorTokens : q[1] = c
    IN  Returned(t, ScanOk(make_token(t, p[2], <<c>>)))

\* the arms '=', '!', '<', '>' of TokenStream::next
operator_arm(t, c) ==
    LET p == CHOOSE q \in OperatorTokens : q[1] = c
    IN  IF next_match_some(t, "=")
        THEN Returned(Advance(t),
                 ScanOk(make_token_from(Advance(t), p[3], <<c, Head(t.chars)>>)))
        ELSE Returned(t, ScanOk(make_token(t, p[2], <<c>>)))

\* the arm '/' of TokenStream::next
slash_arm(t, c) ==
    IF next_match_some(t, "/")
    THEN Returned(skip_comment(Advance(t)), Ignore)
    ELSE Returned(t, ScanOk(make_token(t, "SLASH", <<c>>)))

\* the arm ' ' | '\t' | '\r' of TokenStream::next
\* a blank that is looked at and left in the stream
blank_arm_unread(t, c) == Returned([t EXCEPT !.chars = <<c>> \o @], Ignore)

blank_arm(t, c) == Returned(t, Ignore)

\* the arm '\n' of TokenStream::next
\* a newline that is skipped like a blank
newline_arm_uncounted(t, c) == Returned(t, Ignore)

newline_arm(t, c) == Returned([t EXCEPT !.line = @ + 1], Ignore)

\* an arm _ that ends the stream at the unexpected character
unexpected_arm_stops(t, c) ==
    Returned([t EXCEPT !.at_end = TRUE],
             ScanErr(error_at_line(t.line, <<"Unexpected character: ", c>>)))

\* the arm _ of TokenStream::next
unexpected_arm(t, c) ==
    Returned(t, ScanErr(error_at_line(t.line, <<"Unexpected character: ", c>>)))

\* an arm None that leaves at_end unset
eof_arm_unmarked(ts) == Returned(ts, ScanOk(new_eof(ts.line)))

\* the arm None of TokenStream::next
eof_arm(ts) == Returned([ts EXCEPT !.at_end = TRUE], ScanOk(new_eof(ts.line)))

\* TokenStream::next
next(ts) ==
    IF ts.at_end THEN Returned(ts, NoItem)
    ELSE IF ts.chars = <<>> THEN eof_arm(ts)
    ELSE LET c == Head(ts.chars)
             t == Advance(ts)
         IN  CASE c \in SingleChars -> single_arm(t, c)
               [] c \in OperatorChars -> operator_arm(t, c)
               [] c = "/" -> slash_arm(t, c)
               [] c \in BlankChars -> blank_arm(t, c)
               [] c = "\n" -> newline_arm(t, c)
               [] c = "\"" -> string([t EXCEPT !.lead = c])
               [] is_ascii_digit(c) -> number([t EXCEPT !.lead = c])
               [] is_identifier_start(c) -> identifier([t EXCEPT !.lead = c])
               [] OTHER -> unexpected_arm(t, c)

\* the loop  for item in stream  over what next() returns: every Some(item)
\* up to the first None (or up to the abort); r is what the last call returned
RECURSIVE drain(_)
drain(r) ==
    IF r.panic \/ r.item = NoItem THEN <<>>
    ELSE <<r.item>> \o drain(next(r.ts))

\* the items of a stream pulled to exhaustion
ScanAll(ts) == drain(next(ts))

-----------------------------------------------------------------------------
(* The scan as a state machine: one step is one call of next().            *)

Stream == TokenStream(chars, lead, line, at_end)

\* one call of next() on the stream, its result recorded in the history
ScanStep ==
    LET r == next(Stream)
    IN  /\ ~panicked
        /\ chars' = r.ts.chars
        /\ lead' = r.ts.lead
        /\ line' = r.ts.line
        /\ at_end' = r.ts.at_end
        /\ panicked' = r.panic
        /\ out' = IF r.panic \/ r.item = NoItem THEN out ELSE Append(out, r.item)
        /\ upto' = IF r.panic \/ r.item = NoItem THEN upto
                   ELSE Append(upto, Len(src) - Len(r.ts.chars))
        /\ lines' = IF r.panic \/ r.item = NoItem THEN lines
                    ELSE Append(lines, r.ts.line)
        /\ nones' = IF ~r.panic /\ r.item = NoItem THEN nones + 1 ELSE nones
        /\ UNCHANGED src

\* a call of next() by a caller that does nothing with the result
CallNext == ScanStep /\ UNCHANGED <<parseVars, evalVars, mainVars>>

Pending == ~at_end /\ chars # <<>>

NextAfterEnd == at_end /\ nones < MaxNoneCalls /\ CallNext
NextEof == ~at_end /\ chars = <<>> /\ CallNext
NextSingle == Pending /\ Head(chars) \in SingleChars /\ CallNext
NextOperator == Pending /\ Head(chars) \in OperatorChars /\ CallNext
NextSlash == Pending /\ Head(chars) = "/" /\ CallNext
NextBlank == Pending /\ Head(chars) \in BlankChars /\ CallNext
NextNewline == Pending /\ Head(chars) = "\n" /\ CallNext
NextString == Pending /\ Head(chars) = "\"" /\ CallNext
NextNumber == Pending /\ is_ascii_digit(Head(chars)) /\ CallNext
NextIdentifier == Pending /\ is_identifier_start(Head(chars)) /\ CallNext
NextUnexpected ==
    /\ Pending
    /\ Head(chars) \notin SingleChars \cup OperatorChars \cup BlankChars
                          \cup {"/", "\n", "\""}
    /\ ~is_ascii_digit(Head(chars))
    /\ ~is_identifier_start(Head(chars))
    /\ CallNext

\* the characters of the exhaustively enumerated source texts
Alphabet ==
    {"(", "=", "!", "<", "/", " ", "\n", "\"", "1", ".", "o", "r", "_", "$"}

SeqsUpTo(S, n) == UNION {[1..k -> S] : k \in 0..n}

\* source texts of the repository's tests and of the cases the properties
\* below are about, scanned in addition to the enumerated ones
Examples ==
    {
     \* scanner/mod.rs:670
     <<",", ".", "$", "(", "#">>,
     \* scanner/mod.rs:678
     <<"%", "#", "$", "@", "@">>,
     \* scanner/mod.rs:623
     <<"{", "(", "!", "=", "=", "$", "=", "#", ")", "}">>,
     \* two bad characters around tokens
     <<"1", "$", "2", " ", "o", "$", "r">>,
     \* scanner/mod.rs:590
     <<"(", ")", "{", "=", "=", "=", "!", "}">>,
     \* three '=' in a row
     <<"=", "=", "=">>,
     \* three '<' and an '='
     <<"<", "<", "<", "=">>,
     \* a bad character between two '='
     <<"=", "$", "=">>,
     \* scanner/mod.rs:604
     <<"!", "!", "=", "=", "=">>,
     \* scanner/mod.rs:574
     <<"<", "<", "<", "=", ">", ">", ">", "=">>,
     \* scanner/mod.rs:497
     <<"\"", "h", "e", "l", "l", "o", "\"", " ", ",", " ", "\"", "u", "n",
       "t", "e", "r", "m", "i", "n", "a", "t", "e", "d">>,
     \* an unterminated string over two lines
     <<"1", " ", "\"", "a", "\n", "b", "\n">>,
     \* scanner/mod.rs:503
     <<"\"", "f", "o", "o", " ", "\t", "b", "a", "r", " ", "1", "2", "3",
       " ", "/", "/", " ", "h", "e", "l", "l", "o", " ", "w", "o", "r",
       "l", "d", "!", "\"">>,
     \* a string over two lines, then a token
     <<"\"", "a", "\n", "b", "\"", " ", ";">>,
     \* the empty string
     <<"\"", "\"", "+", "\"", "\"">>,
     \* scanner/mod.rs:463
     <<"2", "4", "3", "8", ".", "6", "5", "4", "1">>,
     \* scanner/mod.rs:467
     <<"1", "9", ".", "0", "0", "0", "0">>,
     \* a number followed by a dot
     <<"7", ".">>,
     \* a number followed by a dot and a letter
     <<"7", ".", "x">>,
     \* a fraction followed by letters
     <<"1", ".", "5", "a", "b", "c">>,
     \* a fraction followed by an exponent
     <<"1", ".", "5", "e", "3">>,
     \* a fraction followed by a second fraction
     <<"1", ".", "5", ".", "2", "5">>,
     \* scanner/mod.rs:407
     <<"_", "1", "2", "3", "b", "a", "z", " ", "f", "0", "0", " ", "6",
       "a", "r", " ", "f", "o", "o", " ", "b", "a", "r">>,
     \* a keyword, the same letters in capitals, and digits before letters
     <<"o", "r", "_", " ", "o", "r", " ", "6", "a", "r", " ", "O", "R">>,
     \* keywords in another case, and a keyword with a suffix
     <<"A", "N", "D", " ", "N", "i", "l", " ", "t", "r", "u", "e", "x">>,
     \* the keywords
     <<"a", "n", "d", " ", "c", "l", "a", "s", "s", " ", "e", "l", "s",
       "e", " ", "f", "a", "l", "s", "e", " ", "f", "o", "r", " ", "f",
       "u", "n", " ", "i", "f", " ", "n", "i", "l">>,
     \* the keywords, continued
     <<"o", "r", " ", "p", "r", "i", "n", "t", " ", "r", "e", "t", "u",
       "r", "n", " ", "s", "u", "p", "e", "r", " ", "t", "h", "i", "s",
       " ", "t", "r", "u", "e", " ", "v", "a", "r", " ", "w", "h", "i",
       "l", "e">>,
     \* scanner/mod.rs:556
     <<"(", "{", "(", "<", "=", "-", "+", ")", "}", ")", "/", "/", "C",
       "o", "m", "m", "e", "n", "t">>,
     \* a comment ended by a newline
     <<"1", "/", "/", "c", " ", "/", "\n", "/", "2">>,
     \* blanks of every kind
     <<" ", "\t", "\r", "\n", " ", "/">>,
     \* newlines between tokens and inside a string, and a bad character
     <<"\n", "\"", "a", "\n", "b", "\"", " ", "$", "\n", "(">>,
     \* parser/mod.rs:201
     <<"6", "6", " ", "-", " ", "2", "5", " ", "*", " ", "6", "6", " ",
       "-", " ", "6", "5">>}

Sources == SeqsUpTo(Alphabet, MaxLen) \cup Examples

NotParsed == [kind |-> "NotParsed"]
NoTree == [node |-> "None"]
NotEvaluated == [kind |-> "NotEvaluated"]
Running == -1

\* the parts of the program a specification does not run
ScannerIdle ==
    /\ src = <<>>
    /\ chars = <<>>
    /\ lead = NoChar
    /\ line = 1
    /\ at_end = FALSE
    /\ out = <<>>
    /\ upto = <<>>
    /\ lines = <<>>
    /\ nones = 0
    /\ panicked = FALSE

ParserIdle == tokens = <<>> /\ input = <<>> /\ parsed = NotParsed

InterpreterIdle == tree = NoTree /\ evaluated = NotEvaluated

MainIdle ==
    /\ command = "none"
    /\ readable = TRUE
    /\ pc = "idle"
    /\ has_error = FALSE
    /\ stdout = <<>>
    /\ stderr = <<>>
    /\ exit = Running

Init ==
    /\ src \in Sources
    /\ chars = scan_tokens(src).chars
    /\ lead = scan_tokens(src).lead
    /\ line = scan_tokens(src).line
    /\ at_end = scan_tokens(src).at_end
    /\ out = <<>>
    /\ upto = <<>>
    /\ lines = <<>>
    /\ nones = 0
    /\ panicked = FALSE
    /\ ParserIdle
    /\ InterpreterIdle
    /\ MainIdle

Next ==
    \/ NextAfterEnd
    \/ NextEof
    \/ NextSingle
    \/ NextOperator
    \/ NextSlash
    \/ NextBlank
    \/ NextNewline
    \/ NextString
    \/ NextNumber
    \/ NextIdentifier
    \/ NextUnexpected

Spec == Init /\ [][Next]_vars

-----------------------------------------------------------------------------
(* Values and the syntax tree (src/src/lib.rs, src/src/parser/expr.rs) *)

NumberValue(m, e) == [tag |-> "Number", mant |-> m, exp |-> e]
StringValue(text) == [tag |-> "String", text |-> text]
BooleanValue(b) == [tag |-> "Boolean", bool |-> b]
NilValue == [tag |-> "Nil"]

\* the conversion of a token's literal into the payload of a Literal node
value_from_literal(literal) ==
    IF literal.tag = "Number"
    THEN NumberValue(literal.mant, literal.exp)
    ELSE StringValue(literal.text)

LiteralNode(value) == [node |-> "Literal", value |-> value]
GroupingNode(expression) == [node |-> "Grouping", expression |-> expression]
UnaryNode(operator, right) ==
    [node |-> "Unary", operator |-> operator, right |-> right]
BinaryNode(left, operator, right) ==
    [node |-> "Binary", left |-> left, operator |-> operator, right |-> right]

-----------------------------------------------------------------------------
(* Parser.  The parser is the list of the tokens it has not consumed; a    *)
(* method is an operator from that list to its result and the list left.   *)

ParseOk(node, rest) == [kind |-> "Ok", node |-> node, rest |-> rest]
ParseErr(report, rest) == [kind |-> "Err", report |-> report, rest |-> rest]
ParsePanic(rest) == [kind |-> "Panic", rest |-> rest]

\* Parser::is_at_end
is_at_end(t) == t = <<>> \/ Head(t).typ = "EOF"

\* Parser::next_if is Some: the next token is consumed
next_if_some(t, tt) == ~is_at_end(t) /\ Head(t).typ = tt

\* Parser::next_match is Some: the next token is consumed
next_match_types(t, types) == \E tt \in types : next_if_some(t, tt)

\* an error() that finds no current token at the EOF token either
error_past_eof(t, message) ==
    IF is_at_end(t) THEN ParsePanic(t)
    ELSE ParseErr(error_at_token(Head(t), message), t)

\* Parser::error, as a result that fails with the report; the expect on
\* peek() aborts when no token is left
error(t, message) ==
    IF t = <<>> THEN ParsePanic(t)
    ELSE ParseErr(error_at_token(Head(t), message), t)

\* Parser::next_ok: next_if runs first, then the report is built from the
\* token that is next after it, and is used only when next_if gave None
next_ok(t, tt, message) ==
    IF next_if_some(t, tt)
    THEN IF error(Tail(t), message).kind = "Panic" THEN ParsePanic(Tail(t))
         ELSE [kind |-> "Ok", token |-> Head(t), rest |-> Tail(t)]
    ELSE error(t, message)

\* a Binary::new with the operands exchanged
binary_of_exchanged(expr, operator, r) ==
    IF r.kind = "Ok" THEN ParseOk(BinaryNode(r.node, operator, expr), r.rest)
    ELSE r

\* Binary::new(expr, operator, right).into() once the right operand r is parsed
binary_of(expr, operator, r) ==
    IF r.kind = "Ok" THEN ParseOk(BinaryNode(expr, operator, r.node), r.rest)
    ELSE r

\* Unary::new(operator, right).into() once the operand r is parsed
unary_of(operator, r) ==
    IF r.kind = "Ok" THEN ParseOk(UnaryNode(operator, r.node), r.rest) ELSE r

\* a Grouping that is built whether or not the ')' was found
grouping_of_lenient(expr, closing) == ParseOk(GroupingNode(expr), closing.rest)

\* Grouping::new(expr).into() once next_ok has looked for the ')'
grouping_of(expr, closing) ==
    IF closing.kind = "Ok" THEN ParseOk(GroupingNode(expr), closing.rest)
    ELSE closing

\* the end of the '(' alternative of primary(): e is the nested expression
grouping(e) ==
    IF e.kind = "Ok"
    THEN grouping_of(e.node,
                     next_ok(e.rest, "RIGHT_PAREN", <<"Expect ')' after expression">>))
    ELSE e

\* the NUMBER | STRING alternative of primary()
literal_of(t) ==
    IF Head(t).literal = NoLiteral THEN ParsePanic(Tail(t))
    ELSE ParseOk(LiteralNode(value_from_literal(Head(t).literal)), Tail(t))

EqualityOperators == {"BANG_EQUAL", "EQUAL_EQUAL"}
ComparisonOperators == {"GREATER", "GREATER_EQUAL", "LESS", "LESS_EQUAL"}
TermOperators == {"MINUS", "PLUS"}
FactorOperators == {"SLASH", "STAR"}
\* prefix operators with '+' among them
UnaryOperatorsWithPlus == {"BANG", "MINUS", "PLUS"}
UnaryOperators == {"BANG", "MINUS"}

RECURSIVE expression(_), equality(_), equality_loop(_), comparison(_),
          comparison_loop(_), term(_), term_loop(_), factor(_),
          factor_loop(_), unary(_), primary(_)

\* Parser::primary
primary(t) ==
    IF next_if_some(t, "TRUE") THEN ParseOk(LiteralNode(BooleanValue(TRUE)), Tail(t))
    ELSE IF next_if_some(t, "FALSE")
    THEN ParseOk(LiteralNode(BooleanValue(FALSE)), Tail(t))
    ELSE IF next_if_some(t, "NIL") THEN ParseOk(LiteralNode(NilValue), Tail(t))
    ELSE IF next_match_types(t, {"NUMBER", "STRING"}) THEN literal_of(t)
    ELSE IF next_if_some(t, "LEFT_PAREN") THEN grouping(expression(Tail(t)))
    ELSE error(t, <<"Expect expression">>)

\* a unary production that does not recurse: one prefix operator at most
unary_once(t) ==
    IF next_match_types(t, UnaryOperators)
    THEN unary_of(Head(t), primary(Tail(t)))
    ELSE primary(t)

\* Parser::unary
unary(t) ==
    IF next_match_types(t, UnaryOperators)
    THEN unary_of(Head(t), unary(Tail(t)))
    ELSE primary(t)

\* the while loop of Parser::factor; l is the result so far
factor_loop(l) ==
    IF l.kind = "Ok" /\ next_match_types(l.rest, FactorOperators)
    THEN factor_loop(binary_of(l.node, Head(l.rest), unary(Tail(l.rest))))
    ELSE l

\* Parser::factor
factor(t) == factor_loop(unary(t))

\* the while loop of Parser::term
term_loop(l) ==
    IF l.kind = "Ok" /\ next_match_types(l.rest, TermOperators)
    THEN term_loop(binary_of(l.node, Head(l.rest), factor(Tail(l.rest))))
    ELSE l

\* Parser::term
term(t) == term_loop(factor(t))

\* the while loop of Parser::comparison
comparison_loop(l) ==
    IF l.kind = "Ok" /\ next_match_types(l.rest, ComparisonOperators)
    THEN comparison_loop(binary_of(l.node, Head(l.rest), term(Tail(l.rest))))
    ELSE l

\* Parser::comparison
comparison(t) == comparison_loop(term(t))

\* the while loop of Parser::equality
equality_loop(l) ==
    IF l.kind = "Ok" /\ next_match_types(l.rest, EqualityOperators)
    THEN equality_loop(binary_of(l.node, Head(l.rest), comparison(Tail(l.rest))))
    ELSE l

\* Parser::equality
equality(t) == equality_loop(comparison(t))

\* Parser::expression
expression(t) == equality(t)

\* Parser::parse
parse(t) == expression(t)

\* the tokens of a scan, as tokenize() and the tests collect them
RECURSIVE tokens_of(_)
tokens_of(items) ==
    IF items = <<>> THEN <<>>
    ELSE IF IsToken(Head(items))
    THEN <<Head(items).token>> \o tokens_of(Tail(items))
    ELSE tokens_of(Tail(items))

-----------------------------------------------------------------------------
(* The parse as a state machine: Parser::from, then one call of parse().   *)

\* longest token list (before the EOF token) enumerated over Vocabulary
MaxTokens == 3
\* most binary operators in the enumerated chains  operand (operator operand)*
MaxOperators == 2

Word(typ, lexeme) == [typ |-> typ, lexeme |-> lexeme, literal |-> NoLiteral]

\* the tokens the enumerated token lists are made of, without their lines
Vocabulary ==
    {[typ |-> "NUMBER", lexeme |-> <<"7">>, literal |-> NumberLiteral(7, 0)],
     [typ |-> "STRING", lexeme |-> <<"\"", "s", "\"">>,
      literal |-> StringLiteral(<<"s">>)],
     Word("TRUE", <<"t", "r", "u", "e">>),
     Word("NIL", <<"n", "i", "l">>),
     Word("LEFT_PAREN", <<"(">>),
     Word("RIGHT_PAREN", <<")">>),
     Word("EQUAL_EQUAL", <<"=", "=">>),
     Word("BANG_EQUAL", <<"!", "=">>),
     Word("LESS", <<"<">>),
     Word("GREATER_EQUAL", <<">", "=">>),
     Word("MINUS", <<"-">>),
     Word("PLUS", <<"+">>),
     Word("STAR", <<"*">>),
     Word("SLASH", <<"/">>),
     Word("BANG", <<"!">>),
     Word("IDENTIFIER", <<"x">>),
     Word("SEMICOLON", <<";">>)}

\* the ten binary operators, for the enumerated chains
BinaryWords ==
    {Word("EQUAL_EQUAL", <<"=", "=">>), Word("BANG_EQUAL", <<"!", "=">>),
     Word("LESS", <<"<">>), Word("LESS_EQUAL", <<"<", "=">>),
     Word("GREATER", <<">">>), Word("GREATER_EQUAL", <<">", "=">>),
     Word("MINUS", <<"-">>), Word("PLUS", <<"+">>),
     Word("STAR", <<"*">>), Word("SLASH", <<"/">>)}

\* the k-th operand of a chain: the number k
Operand(k) ==
    [typ |-> "NUMBER", lexeme |-> <<DigitChars[k + 1]>>,
     literal |-> NumberLiteral(k, 0)]

\* operand 1, ops[1], operand 2, ..., ops[n], operand n + 1
Chain(ops) ==
    [i \in 1..(2 * Len(ops) + 1) |->
        IF i % 2 = 1 THEN Operand((i + 1) \div 2) ELSE ops[i \div 2]]

\* the token list the scanner gives for these words: all on line 1, or one
\* word a line, and the EOF token at the end
Lined(words, perLine) ==
    [i \in 1..(Len(words) + 1) |->
        IF i <= Len(words)
        THEN Token(words[i].typ, words[i].lexeme, words[i].literal,
                   IF perLine THEN i ELSE 1)
        ELSE new_eof(IF perLine THEN i ELSE 1)]

\* source texts whose tokens are parsed in addition to the enumerated lists
ParserExamples ==
    {\* parser/mod.rs:201
     <<"6", "6", " ", "-", " ", "2", "5", " ", "*", " ", "6", "6", " ", "-",
       " ", "6", "5">>,
     \* parser/mod.rs:195
     <<"9", "7", " ", "<", " ", "1", "2", "9", " ", "<", " ", "1", "6", "1">>,
     \* parser/mod.rs:197
     <<"(", "8", "3", " ", "-", " ", "4", "4", ")", " ", ">", "=", " ", "-",
       "(", "3", "0", " ", "/", " ", "5", "2", " ", "+", " ", "2", "8", ")">>,
     \* a group that is not closed, over two lines
     <<"(", "1", " ", "+", "\n", "\"", "s", "\"">>,
     \* a group closed by the wrong token
     <<"(", "(", "t", "r", "u", "e", ")", " ", "}">>,
     \* an operator without its right operand
     <<"1", " ", "*", "\n", "\n", ")">>,
     \* the same inside a group, with a token after the group
     <<"(", "1", " ", "-", " ", ")", " ", "2">>,
     \* two expressions one after the other
     <<"(", "1", ")", " ", "(", "2", ")">>,
     \* prefix operators: parser/mod.rs:210-217
     <<"!", "!", "f", "a", "l", "s", "e">>,
     <<"-", "5", "8", " ", "+", " ", "9", "8">>,
     <<"7", "6", " ", "*", " ", "-", "3", "9">>,
     <<"-", "!", "-", "(", "1", ")", " ", "<", " ", "!", "-", "2">>}

TokenLists ==
    {Lined(words, perLine) :
        words \in SeqsUpTo(Vocabulary, MaxTokens), perLine \in BOOLEAN}
    \cup {Lined(Chain(ops), FALSE) : ops \in SeqsUpTo(BinaryWords, MaxOperators)}
    \cup {tokens_of(ScanAll(scan_tokens(text))) : text \in ParserExamples}

InitParser ==
    /\ input \in TokenLists
    /\ tokens = input
    /\ parsed = NotParsed
    /\ ScannerIdle
    /\ InterpreterIdle
    /\ MainIdle

\* parser.parse() on the tokens of Parser::from(input)
Parse ==
    /\ parsed = NotParsed
    /\ parsed' = parse(tokens)
    /\ tokens' = parse(tokens).rest
    /\ UNCHANGED <<input, scanVars, evalVars, mainVars>>

NextParser == Parse

SpecParser == InitParser /\ [][NextParser]_vars

-----------------------------------------------------------------------------
(* Reading the history of a scan *)

\* index in src of the first character consumed by the call that returned out[k]
Start(k) == IF k = 1 THEN 1 ELSE upto[k - 1] + 1

\* the line counter before the call that returned out[k]
LineBefore(k) == IF k = 1 THEN 1 ELSE lines[k - 1]

\* out[k] was returned by a call that consumed a character (it is not the EOF)
FromChar(k) == Start(k) <= Len(src)

NewlinesIn(s, n) == Cardinality({i \in 1..n : s[i] = "\n"})

\* the items of a sequence that are not Ignore
RECURSIVE Visible(_)
Visible(items) ==
    IF items = <<>> THEN <<>>
    ELSE IF Head(items) = Ignore THEN Visible(Tail(items))
    ELSE <<Head(items)>> \o Visible(Tail(items))

\* the token types of the tokens of a sequence of items, errors shown as "error"
TypesOf(items) ==
    [k \in 1..Len(Visible(items)) |->
        IF IsToken(Visible(items)[k]) THEN Visible(items)[k].token.typ
        ELSE "error"]

\* a stream placed after the first n characters of src, at line ln
StreamAfter(n, ln) == TokenStream(SubSeq(src, n + 1, Len(src)), NoChar, ln, FALSE)

-----------------------------------------------------------------------------
\* C1: once the stream is exhausted the items end with the EOF token, which
\* has an empty lexeme and no literal; it is the only EOF token; before the
\* end there is no EOF token; and next() returns None only after the EOF
\* token, and nothing but None after it, whatever errors came before.
EofItems == {k \in 1..Len(out) : IsTokenOf(out[k], "EOF")}

-----------------------------------------------------------------------------
\* C2 as stated: the tokens after the error item of a bad character are the
\* tokens the source would give with the bad character absent, that is, the
\* last items of the scan of the source without that character.
IsUnexpected(item) ==
    IsError(item) /\ item.report.message[1] = "Unexpected character: "

Without(s, i) == SubSeq(s, 1, i - 1) \o SubSeq(s, i + 1, Len(s))

IsSuffixOf(a, b) ==
    Len(a) <= Len(b) /\ a = SubSeq(b, Len(b) - Len(a) + 1, Len(b))

C2_AsIfAbsent ==
    at_end =>
        \A k \in 1..Len(out) :
            IsUnexpected(out[k]) =>
                IsSuffixOf(Visible(SubSeq(out, k + 1, Len(out))),
                           Visible(ScanAll(scan_tokens(Without(src, upto[k])))))

\* C2 as amended: a character that starts no token gives exactly one error
\* item "Unexpected character: <c>" with the current line and no location,
\* the call consumes that one character only and leaves the line counter as
\* it was; and the items after it are exactly the items of a stream placed
\* right after the bad character (the bad character still separates tokens).
StartsNoToken(c) ==
    /\ c \notin {"(", ")", "{", "}", "*", ".", ",", "+", "-", ";"}
    /\ c \notin {"=", "!", "<", ">", "/", " ", "\t", "\r", "\n", "\""}
    /\ ~is_ascii_digit(c)
    /\ c # "_" /\ c \notin LowerChars /\ c \notin UpperChars

C2_UnexpectedCharacter ==
    \A k \in 1..Len(out) :
        /\ (FromChar(k) /\ StartsNoToken(src[Start(k)])) => IsUnexpected(out[k])
        /\ IsUnexpected(out[k]) =>
              /\ StartsNoToken(src[Start(k)])
              /\ upto[k] = Start(k)
              /\ out[k].report.message =
                     <<"Unexpected character: ", src[Start(k)]>>
              /\ out[k].report.line = 1 + NewlinesIn(src, upto[k])
              /\ out[k].report.location = <<>>
              /\ lines[k] = LineBefore(k)
              /\ at_end =>
                    SubSeq(out, k + 1, Len(out))
                        = ScanAll(StreamAfter(upto[k], lines[k]))

C2_Witness ==
    /\ at_end
    /\ \E k \in 1..Len(out) :
          /\ IsUnexpected(out[k])
          /\ \E j \in 1..(k - 1) : IsToken(out[j])
          /\ \E j \in (k + 1)..(Len(out) - 1) : IsTokenOf(out[j], "EQUAL")
          /\ \E j \in (k + 1)..(Len(out) - 1) : IsUnexpected(out[j])

-----------------------------------------------------------------------------
\* C3: a call that starts at '=', '!', '<' or '>' returns the two-character
\* token (==, !=, <=, >=) and consumes two characters exactly when the very
\* next character of the source is '=', and the one-character token
\* otherwise; tokens of these eight types come from nowhere else; so "==="
\* is EQUAL_EQUAL EQUAL, "!!===" is BANG BANG_EQUAL EQUAL_EQUAL and "<<<=" is
\* LESS LESS LESS_EQUAL.
OneCharType(c) ==
    CASE c = "=" -> "EQUAL" [] c = "!" -> "BANG"
      [] c = "<" -> "LESS" [] c = ">" -> "GREATER"

TwoCharType(c) ==
    CASE c = "=" -> "EQUAL_EQUAL" [] c = "!" -> "BANG_EQUAL"
      [] c = "<" -> "LESS_EQUAL" [] c = ">" -> "GREATER_EQUAL"

ComparisonTypes ==
    {"EQUAL", "BANG", "LESS", "GREATER",
     "EQUAL_EQUAL", "BANG_EQUAL", "LESS_EQUAL", "GREATER_EQUAL"}

FollowedByEqual(i) == i < Len(src) /\ src[i + 1] = "="

C3_MaximalMunch ==
    /\ \A k \in 1..Len(out) :
          /\ (FromChar(k) /\ src[Start(k)] \in {"=", "!", "<", ">"}) =>
                /\ IsToken(out[k])
                /\ out[k].token.literal = NoLiteral
                /\ IF FollowedByEqual(Start(k))
                   THEN /\ out[k].token.typ = TwoCharType(src[Start(k)])
                        /\ out[k].token.lexeme = <<src[Start(k)], "=">>
                        /\ upto[k] = Start(k) + 1
                   ELSE /\ out[k].token.typ = OneCharType(src[Start(k)])
                        /\ out[k].token.lexeme = <<src[Start(k)]>>
                        /\ upto[k] = Start(k)
          /\ (IsToken(out[k]) /\ out[k].token.typ \in ComparisonTypes) =>
                src[Start(k)] \in {"=", "!", "<", ">"}
    /\ (at_end /\ src = <<"=", "=", "=">>) =>
          TypesOf(out) = <<"EQUAL_EQUAL", "EQUAL", "EOF">>
    /\ (at_end /\ src = <<"!", "!", "=", "=", "=">>) =>
          TypesOf(out) = <<"BANG", "BANG_EQUAL", "EQUAL_EQUAL", "EOF">>
    /\ (at_end /\ src = <<"<", "<", "<", "=">>) =>
          TypesOf(out) = <<"LESS", "LESS", "LESS_EQUAL", "EOF">>

C3_Witness ==
    /\ at_end
    /\ src = <<"!", "!", "=", "=", "=">>
    /\ Len(out) = 4

-----------------------------------------------------------------------------
\* C4: the error "Unterminated string." is returned exactly by a call that
\* starts at a '"' with no later '"'; the call consumes the rest of the
\* input; the error's line is the line counter when the input ran out, which
\* counts the newlines inside the unfinished string; no token is returned
\* for it and the only item after it is the EOF token; and the items before
\* it are the items the text before the opening quote gives on its own.
IsUnterminated(item) ==
    IsError(item) /\ item.report.message = <<"Unterminated string.">>

NoQuoteAfter(i) == \A j \in (i + 1)..Len(src) : src[j] # "\""

\* a sequence without its last element
Front(items) == SubSeq(items, 1, Len(items) - 1)

C4_UnterminatedString ==
    \A k \in 1..Len(out) :
        /\ (FromChar(k) /\ src[Start(k)] = "\"" /\ NoQuoteAfter(Start(k))) =>
              IsUnterminated(out[k])
        /\ IsUnterminated(out[k]) =>
              /\ src[Start(k)] = "\"" /\ NoQuoteAfter(Start(k))
              /\ upto[k] = Len(src)
              /\ out[k].report.line = 1 + NewlinesIn(src, Len(src))
              /\ out[k].report.line = lines[k]
              /\ out[k].report.location = <<>>
              /\ Len(out) <= k + 1
              /\ Len(out) = k + 1 => IsTokenOf(out[k + 1], "EOF")
              /\ SubSeq(out, 1, k - 1) =
                     Front(ScanAll(scan_tokens(SubSeq(src, 1, Start(k) - 1))))

C4_Witness ==
    /\ at_end
    /\ \E k \in 1..Len(out) :
          /\ IsUnterminated(out[k])
          /\ out[k].report.line = 3
          /\ k > 1
          /\ IsTokenOf(out[1], "NUMBER")

-----------------------------------------------------------------------------
\* C5 as stated: the scan of a number never aborts, and the lexeme of every
\* NUMBER token is one or more digits, optionally followed by one '.' and
\* one or more digits, and nothing else.
AllDigits(s, i, j) == \A n \in i..j : is_ascii_digit(s[n])

IsDecimal(s) ==
    \/ Len(s) >= 1 /\ AllDigits(s, 1, Len(s))
    \/ \E d \in 2..(Len(s) - 1) :
          /\ s[d] = "."
          /\ AllDigits(s, 1, d - 1)
          /\ AllDigits(s, d + 1, Len(s))

C5_NumberLexeme ==
    /\ ~panicked
    /\ \A k \in 1..Len(out) :
          IsTokenOf(out[k], "NUMBER") => IsDecimal(out[k].token.lexeme)

-----------------------------------------------------------------------------
\* C6: a call that starts at '_' or a letter returns one token whose lexeme
\* is the whole run of '_', letters and digits from there on; its type is the
\* keyword's type when the lexeme is, letter for letter, one of the 16
\* keywords, and IDENTIFIER otherwise; and when digits are directly followed
\* by '_' or a letter, the digits become a NUMBER token and the rest of the
\* run the next token.
InRun(c) == c = "_" \/ is_ascii_digit(c) \/ c \in LowerChars \/ c \in UpperChars

\* the last index of the longest run of InRun characters that starts at i
RunEnd(i) ==
    CHOOSE j \in i..Len(src) :
        /\ \A n \in i..j : InRun(src[n])
        /\ j = Len(src) \/ ~InRun(src[j + 1])

\* the last index of the longest run of digits that starts at i
DigitsEnd(i) ==
    CHOOSE j \in i..Len(src) :
        /\ AllDigits(src, i, j)
        /\ j = Len(src) \/ ~is_ascii_digit(src[j + 1])

KeywordTypes ==
    {"AND", "CLASS", "ELSE", "FALSE", "FOR", "FUN", "IF", "NIL", "OR",
     "PRINT", "RETURN", "SUPER", "THIS", "TRUE", "VAR", "WHILE"}

IsWord(item, i, j, typ) ==
    /\ IsTokenOf(item, typ)
    /\ item.token.lexeme = SubSeq(src, i, j)
    /\ item.token.literal = NoLiteral

WordType(lexeme) ==
    IF \E kw \in KEYWORDS : kw[1] = lexeme
    THEN (CHOOSE kw \in KEYWORDS : kw[1] = lexeme)[2]
    ELSE "IDENTIFIER"

StartsWord(c) == c = "_" \/ c \in LowerChars \/ c \in UpperChars

C6_IdentifiersAndKeywords ==
    /\ Cardinality(KEYWORDS) = 16
    /\ {kw[2] : kw \in KEYWORDS} = KeywordTypes
    /\ \A k \in 1..Len(out) :
          /\ (FromChar(k) /\ StartsWord(src[Start(k)])) =>
                /\ upto[k] = RunEnd(Start(k))
                /\ IsWord(out[k], Start(k), upto[k],
                          WordType(SubSeq(src, Start(k), RunEnd(Start(k)))))
          /\ (IsToken(out[k])
                /\ out[k].token.typ \in KeywordTypes \cup {"IDENTIFIER"}) =>
                StartsWord(src[Start(k)])
          /\ (/\ FromChar(k)
              /\ is_ascii_digit(src[Start(k)])
              /\ DigitsEnd(Start(k)) < Len(src)
              /\ StartsWord(src[DigitsEnd(Start(k)) + 1])) =>
                /\ IsTokenOf(out[k], "NUMBER")
                /\ out[k].token.lexeme = SubSeq(src, Start(k), DigitsEnd(Start(k)))
                /\ upto[k] = DigitsEnd(Start(k))
                /\ Len(out) > k =>
                      /\ out[k + 1].token.lexeme =
                             SubSeq(src, upto[k] + 1, RunEnd(upto[k] + 1))
                      /\ out[k + 1].token.typ \in KeywordTypes \cup {"IDENTIFIER"}
    /\ (at_end /\ src = <<"A", "N", "D", " ", "N", "i", "l", " ",
                          "t", "r", "u", "e", "x">>) =>
          TypesOf(out) = <<"IDENTIFIER", "IDENTIFIER", "IDENTIFIER", "EOF">>

C6_Witness ==
    /\ at_end
    /\ \E k \in 1..(Len(out) - 1) :
          /\ IsTokenOf(out[k], "NUMBER")
          /\ IsTokenOf(out[k + 1], "IDENTIFIER")
          /\ out[k + 1].token.lexeme = <<"a", "r">>
    /\ \E k \in 1..Len(out) : IsTokenOf(out[k], "OR")
    /\ \E k \in 1..Len(out) :
          IsTokenOf(out[k], "IDENTIFIER") /\ out[k].token.lexeme = <<"O", "R">>
    /\ \E k \in 1..Len(out) :
          IsTokenOf(out[k], "IDENTIFIER") /\ out[k].token.lexeme = <<"o", "r", "_">>

-----------------------------------------------------------------------------
\* C7: a call that starts at a space, tab, carriage return or newline
\* consumes that one character and returns Ignore; a call that starts at
\* "//" returns Ignore and consumes every character before the next newline
\* (or the rest of the input), so that newline is consumed by a later call,
\* which adds one to the line counter; a '/' not followed by '/' is a SLASH
\* token; and Ignore is returned by no other call.
\* the index of the last character of the comment that starts at i
CommentEnd(i) ==
    IF \E j \in (i + 2)..Len(src) : src[j] = "\n"
    THEN (CHOOSE j \in (i + 2)..Len(src) :
              src[j] = "\n" /\ \A n \in (i + 2)..(j - 1) : src[n] # "\n") - 1
    ELSE Len(src)

StartsComment(i) == src[i] = "/" /\ i < Len(src) /\ src[i + 1] = "/"

C7_BlanksAndComments ==
    \A k \in 1..Len(out) :
        /\ (FromChar(k) /\ src[Start(k)] \in {" ", "\t", "\r"}) =>
              out[k] = Ignore /\ upto[k] = Start(k) /\ lines[k] = LineBefore(k)
        /\ (FromChar(k) /\ src[Start(k)] = "\n") =>
              out[k] = Ignore /\ upto[k] = Start(k)
                  /\ lines[k] = LineBefore(k) + 1
        /\ (FromChar(k) /\ StartsComment(Start(k))) =>
              /\ out[k] = Ignore
              /\ upto[k] = CommentEnd(Start(k))
              /\ lines[k] = LineBefore(k)
              /\ (Len(out) > k /\ upto[k] < Len(src)) =>
                    /\ out[k + 1] = Ignore
                    /\ upto[k + 1] = upto[k] + 1
                    /\ lines[k + 1] = lines[k] + 1
        /\ (FromChar(k) /\ src[Start(k)] = "/" /\ ~StartsComment(Start(k))) =>
              /\ IsTokenOf(out[k], "SLASH")
              /\ out[k].token.lexeme = <<"/">>
              /\ upto[k] = Start(k)
        /\ out[k] = Ignore =>
              \/ src[Start(k)] \in {" ", "\t", "\r", "\n"}
              \/ StartsComment(Start(k))

C7_Witness ==
    /\ at_end
    /\ \E k \in 1..(Len(out) - 2) :
          /\ StartsComment(Start(k))
          /\ upto[k] > Start(k) + 2
          /\ src[upto[k] + 1] = "\n"
          /\ IsTokenOf(out[k + 2], "SLASH")
          /\ out[k + 2].token.line = 2

-----------------------------------------------------------------------------
(* Reading a token list without the parser *)

LiteralTypes == {"NUMBER", "STRING", "TRUE", "FALSE", "NIL"}

BinaryTypes ==
    {"BANG_EQUAL", "EQUAL_EQUAL", "GREATER", "GREATER_EQUAL", "LESS",
     "LESS_EQUAL", "MINUS", "PLUS", "SLASH", "STAR"}

\* binding strength of a binary operator, 1 the loosest
Strength(typ) ==
    CASE typ \in {"BANG_EQUAL", "EQUAL_EQUAL"} -> 1
      [] typ \in {"GREATER", "GREATER_EQUAL", "LESS", "LESS_EQUAL"} -> 2
      [] typ \in {"MINUS", "PLUS"} -> 3
      [] typ \in {"SLASH", "STAR"} -> 4

\* the value a literal token stands for
ValueOf(token) ==
    CASE token.typ = "TRUE" -> BooleanValue(TRUE)
      [] token.typ = "FALSE" -> BooleanValue(FALSE)
      [] token.typ = "NIL" -> NilValue
      [] token.typ = "NUMBER" ->
            NumberValue(token.literal.mant, token.literal.exp)
      [] token.typ = "STRING" -> StringValue(token.literal.text)

\* input[i..j] is an expression without parentheses: prefix operators, then
\* a literal, then a binary operator, and so on, ending with a literal
RECURSIVE Alternates(_, _, _)
Alternates(i, j, operandNext) ==
    IF i > j THEN ~operandNext
    ELSE IF operandNext
    THEN \/ input[i].typ \in {"BANG", "MINUS"} /\ Alternates(i + 1, j, TRUE)
         \/ input[i].typ \in LiteralTypes /\ Alternates(i + 1, j, FALSE)
    ELSE input[i].typ \in BinaryTypes /\ Alternates(i + 1, j, TRUE)

PlainExpression(i, j) == i <= j /\ Alternates(i, j, TRUE)

\* in a plain expression that starts at i, the operator at m is a binary one
BinaryAt(i, m) ==
    m > i /\ input[m].typ \in BinaryTypes /\ input[m - 1].typ \in LiteralTypes

\* the tree the grammar prescribes for the plain expression input[i..j]: it
\* splits at the last of its loosest binary operators; without a binary
\* operator a prefix operator applies to all that follows it
RECURSIVE Prescribed(_, _)
Prescribed(i, j) ==
    IF \E m \in i..j : BinaryAt(i, m)
    THEN LET m == CHOOSE m \in i..j :
                    /\ BinaryAt(i, m)
                    /\ \A o \in i..j : BinaryAt(i, o) =>
                          \/ Strength(input[m].typ) < Strength(input[o].typ)
                          \/ Strength(input[m].typ) = Strength(input[o].typ)
                                /\ o <= m
         IN  BinaryNode(Prescribed(i, m - 1), input[m], Prescribed(m + 1, j))
    ELSE IF input[i].typ \in {"BANG", "MINUS"}
    THEN UnaryNode(input[i], Prescribed(i + 1, j))
    ELSE LiteralNode(ValueOf(input[i]))

Parsed == parsed # NotParsed

\* the tokens of input before its EOF token
Last == Len(input) - 1

Number(n) == LiteralNode(NumberValue(n, 0))

-----------------------------------------------------------------------------
\* C8: a token list that is an expression without parentheses parses to the
\* tree the grammar prescribes, and all of it is consumed: equality binds
\* loosest, then comparison, term, factor and the prefix operators; of two
\* operators in a row the second takes the middle operand exactly when it
\* binds tighter, so operators of one tier nest to the left; and
\* "66 - 25 * 66 - 65" is (- (- 66 (* 25 66)) 65), "97 < 129 < 161" is
\* (< (< 97 129) 161).
C8_PrecedenceAndLeftNesting ==
    Parsed =>
      /\ PlainExpression(1, Last) =>
            /\ parsed.kind = "Ok"
            /\ parsed.node = Prescribed(1, Last)
            /\ tokens = <<input[Len(input)]>>
      /\ (Last = 5 /\ PlainExpression(1, Last)
            /\ BinaryAt(1, 2) /\ BinaryAt(1, 4)) =>
            parsed.node =
                IF Strength(input[2].typ) >= Strength(input[4].typ)
                THEN BinaryNode(
                         BinaryNode(LiteralNode(ValueOf(input[1])), input[2],
                                    LiteralNode(ValueOf(input[3]))),
                         input[4], LiteralNode(ValueOf(input[5])))
                ELSE BinaryNode(
                         LiteralNode(ValueOf(input[1])), input[2],
                         BinaryNode(LiteralNode(ValueOf(input[3])), input[4],
                                    LiteralNode(ValueOf(input[5]))))
      /\ (Last = 7 /\ input[1].lexeme = <<"6", "6">> /\ input[4].typ = "STAR") =>
            parsed.node =
                BinaryNode(
                    BinaryNode(Number(66), input[2],
                               BinaryNode(Number(25), input[4], Number(66))),
                    input[6], Number(65))
      /\ (Last = 5 /\ input[1].lexeme = <<"9", "7">>) =>
            parsed.node =
                BinaryNode(BinaryNode(Number(97), input[2], Number(129)),
                           input[4], Number(161))

C8_Witness ==
    /\ Parsed
    /\ Last = 7
    /\ input[1].lexeme = <<"6", "6">>
    /\ input[2].typ = "MINUS" /\ input[4].typ = "STAR" /\ input[6].typ = "MINUS"
    /\ parsed.kind = "Ok"
    /\ parsed.node.left.right.operator.typ = "STAR"

-----------------------------------------------------------------------------
\* C9 as stated, for a '(' followed by an expression without parentheses
\* that ends before the token at c: when that token is ')' it is consumed
\* and the group is returned; when it is any other token, the EOF token
\* included, the parse fails with the message given, at that token's line,
\* located at that token ("at end" for the EOF token), the token is left
\* unconsumed and no tree is returned.
LocationOf(token) ==
    IF token.typ = "EOF" THEN <<" at end">>
    ELSE <<" at '", token.lexeme, "'">>

GroupEndsAt(c) ==
    /\ c > 2
    /\ input[1].typ = "LEFT_PAREN"
    /\ PlainExpression(2, c - 1)
    /\ input[c].typ \notin BinaryTypes

GroupingRule(message) ==
    Parsed =>
        \A c \in 3..Len(input) :
            GroupEndsAt(c) =>
                IF input[c].typ = "RIGHT_PAREN"
                THEN input[c + 1].typ \notin BinaryTypes =>
                        /\ parsed.kind = "Ok"
                        /\ parsed.node = GroupingNode(Prescribed(2, c - 1))
                        /\ tokens = SubSeq(input, c + 1, Len(input))
                ELSE /\ parsed.kind = "Err"
                     /\ parsed.report.message = message
                     /\ parsed.report.line = input[c].line
                     /\ parsed.report.location = LocationOf(input[c])
                     /\ tokens = SubSeq(input, c, Len(input))

C9_ExpectParen == GroupingRule(<<"Expect ')' after expression.">>)

\* the same rule with the text the parser passes to next_ok
C9_WithParserText == GroupingRule(<<"Expect ')' after expression">>)

-----------------------------------------------------------------------------
\* C10 as stated: when the parser is at a place where an operand must start
\* (the start, after '(', after a prefix operator, after a binary operator)
\* and the token there starts none, the parse fails with the message given,
\* at that token's line, located " at end" for the EOF token and
\* " at '<lexeme>'" otherwise, and the token is left unconsumed.
RECURSIVE OperandMustStartAt(_)
OperandMustStartAt(i) ==
    \/ i = 1
    \/ /\ i > 1
       /\ \/ /\ input[i - 1].typ \in {"LEFT_PAREN", "BANG", "MINUS"}
             /\ OperandMustStartAt(i - 1)
          \/ /\ input[i - 1].typ \in BinaryTypes
             /\ i > 2
             /\ input[i - 2].typ \in LiteralTypes
             /\ OperandMustStartAt(i - 2)

StartsOperand(token) ==
    token.typ \in LiteralTypes \cup {"LEFT_PAREN", "BANG", "MINUS"}

PrimaryRule(message) ==
    Parsed =>
        \A i \in 1..Len(input) :
            (OperandMustStartAt(i) /\ ~StartsOperand(input[i])) =>
                /\ parsed.kind = "Err"
                /\ parsed.report.message = message
                /\ parsed.report.line = input[i].line
                /\ parsed.report.location = LocationOf(input[i])
                /\ tokens = SubSeq(input, i, Len(input))

C10_ExpectExpression == PrimaryRule(<<"Expect expression.">>)

\* the same rule with the text primary() passes to error
C10_WithParserText == PrimaryRule(<<"Expect expression">>)

-----------------------------------------------------------------------------
\* What the grammar makes of input from index i on, read token by token
\* without building a tree.  operandNext: an operand must start at i;
\* depth: the groups that are open.  The reading ends at the first token
\* that cannot continue the expression: an error when an operand or a ')'
\* is missing there, the end of the expression otherwise.
RECURSIVE Reading(_, _, _)
Reading(i, operandNext, depth) ==
    IF operandNext
    THEN IF input[i].typ \in LiteralTypes THEN Reading(i + 1, FALSE, depth)
         ELSE IF input[i].typ \in {"BANG", "MINUS"}
         THEN Reading(i + 1, TRUE, depth)
         ELSE IF input[i].typ = "LEFT_PAREN"
         THEN Reading(i + 1, TRUE, depth + 1)
         ELSE [kind |-> "Err", at |-> i, message |-> <<"Expect expression">>]
    ELSE IF input[i].typ \in BinaryTypes THEN Reading(i + 1, TRUE, depth)
         ELSE IF depth = 0 THEN [kind |-> "Ok", at |-> i]
         ELSE IF input[i].typ = "RIGHT_PAREN"
         THEN Reading(i + 1, FALSE, depth - 1)
         ELSE [kind |-> "Err", at |-> i,
               message |-> <<"Expect ')' after expression">>]

FirstStop == Reading(1, TRUE, 0)

\* C11: a parse gives either one tree and no report, or one report and no
\* tree.  It fails exactly when the token list has a syntax error; the
\* report is then the one raised at the first token that cannot continue
\* the expression, whatever productions enclose it, and the tokens from
\* that token on are left unconsumed.
C11_OneTreeOrOneReport ==
    Parsed =>
        /\ parsed.kind \in {"Ok", "Err"}
        /\ parsed.kind = FirstStop.kind
        /\ tokens = SubSeq(input, FirstStop.at, Len(input))
        /\ parsed.kind = "Ok" => DOMAIN parsed = {"kind", "node", "rest"}
        /\ parsed.kind = "Err" =>
              /\ DOMAIN parsed = {"kind", "report", "rest"}
              /\ parsed.report =
                    error_at_token(input[FirstStop.at], FirstStop.message)

\* an error raised inside a group, under a binary operator, with tokens left
\* after the offending one
C11_Witness ==
    /\ Parsed
    /\ parsed.kind = "Err"
    /\ input[1].typ = "LEFT_PAREN"
    /\ \E i \in 3..(FirstStop.at - 1) :
          input[i].typ \in BinaryTypes /\ input[i - 1].typ \in LiteralTypes
    /\ Len(tokens) >= 2
    /\ tokens[1].typ # "EOF"

-----------------------------------------------------------------------------
(* Interpreter (src/src/interpreter/mod.rs).  A Number is the decimal      *)
(* mant * 10^exp of NumberValue, normalised; arithmetic is exact, so the   *)
(* rounding of f64 is left out, and so is the sign of zero.  A quotient    *)
(* with no finite decimal expansion is cut after QuotientDigits digits.    *)

\* digits kept after the point of a quotient that does not terminate
QuotientDigits == 4

RECURSIVE Pow10(_)
Pow10(n) == IF n <= 0 THEN 1 ELSE 10 * Pow10(n - 1)

Min(a, b) == IF a <= b THEN a ELSE b
Abs(n) == IF n < 0 THEN -n ELSE n
Sign(n) == IF n < 0 THEN -1 ELSE 1

\* the integer a is when written with exponent e <= a.exp
Scaled(a, e) == a.mant * Pow10(a.exp - e)

\* Value::from(f64) of a normalised decimal
number_value(d) == NumberValue(d.mant, d.exp)

\* -n
f64_neg(a) == NumberValue(-a.mant, a.exp)

f64_add_at(a, b, e) == number_value(Normalise(Scaled(a, e) + Scaled(b, e), e))
f64_sub_at(a, b, e) == number_value(Normalise(Scaled(a, e) - Scaled(b, e), e))
\* a + b, a - b, a * b
f64_add(a, b) == f64_add_at(a, b, Min(a.exp, b.exp))
f64_sub(a, b) == f64_sub_at(a, b, Min(a.exp, b.exp))
f64_mul(a, b) == number_value(Normalise(a.mant * b.mant, a.exp + b.exp))

\* a < b, a <= b
f64_lt(a, b) == Scaled(a, Min(a.exp, b.exp)) < Scaled(b, Min(a.exp, b.exp))
f64_le(a, b) == Scaled(a, Min(a.exp, b.exp)) <= Scaled(b, Min(a.exp, b.exp))

\* the least k <= QuotientDigits from k0 on with m * 10^k a multiple of d
RECURSIVE QuotientShift(_, _, _)
QuotientShift(m, d, k) ==
    IF k >= QuotientDigits \/ (m * Pow10(k)) % d = 0 THEN k
    ELSE QuotientShift(m, d, k + 1)

f64_div_by(a, b, k) ==
    number_value(
        Normalise(Sign(a.mant) * Sign(b.mant)
                      * ((Abs(a.mant) * Pow10(k)) \div Abs(b.mant)),
                  a.exp - b.exp - k))

\* a / b for b # 0
f64_div(a, b) == f64_div_by(a, b, QuotientShift(Abs(a.mant), Abs(b.mant), 0))

\* RuntimeError::new
RuntimeError(token, message) == [token |-> token, message |-> message]

EvalOk(value) == [kind |-> "Ok", value |-> value]
EvalErr(err) == [kind |-> "Err", error |-> err]
\* the process aborts: todo!() or panic!()
EvalPanic == [kind |-> "Panic"]

\* a truthiness in which the number zero is false as well
is_truthy_zero_false(v) ==
    CASE v.tag = "Nil" -> FALSE
      [] v.tag = "Boolean" -> v.bool
      [] v.tag = "Number" -> v.mant # 0
      [] OTHER -> TRUE

\* Value::is_truthy
is_truthy(v) ==
    CASE v.tag = "Nil" -> FALSE
      [] v.tag = "Boolean" -> v.bool
      [] OTHER -> TRUE

\* an equality that compares truthiness when the variants differ
values_equal_loosely(left, right) ==
    IF left.tag = right.tag THEN left = right
    ELSE is_truthy(left) = is_truthy(right)

\* PartialEq for Value, as derived: same variant, same payload
values_equal(left, right) == left = right

\* check_number_operands is Ok
both_numbers(left, right) == left.tag = "Number" /\ right.tag = "Number"

\* a check_number_operands with the message of the unary operator
check_number_operands_singular(left, right, op) ==
    EvalErr(RuntimeError(op, <<"Operand must be a number.">>))

\* check_number_operands as the outcome of the arm when it is Err
check_number_operands(left, right, op) ==
    EvalErr(RuntimeError(op, <<"Operands must be numbers.">>))

\* Interpreter::visit_literal_expr
visit_literal_expr(expr) == EvalOk(expr.value)

\* a grouping that gives nil when its child fails
visit_grouping_expr_masking(r) == IF r.kind = "Err" THEN EvalOk(NilValue) ELSE r

\* Interpreter::visit_grouping_expr, r being the outcome of the child
visit_grouping_expr(r) == r

\* a negation that takes a non-number for zero
unary_arm_coercing(operator, right) ==
    CASE operator.typ = "BANG" -> EvalOk(BooleanValue(~is_truthy(right)))
      [] operator.typ = "MINUS" ->
            IF right.tag = "Number" THEN EvalOk(f64_neg(right))
            ELSE EvalOk(NumberValue(0, 0))
      [] OTHER -> EvalPanic

\* the match of visit_unary_expr on the operator, right being evaluated
unary_arm(operator, right) ==
    CASE operator.typ = "BANG" -> EvalOk(BooleanValue(~is_truthy(right)))
      [] operator.typ = "MINUS" ->
            IF right.tag = "Number" THEN EvalOk(f64_neg(right))
            ELSE EvalErr(RuntimeError(operator, <<"Operand must be a number.">>))
      [] OTHER -> EvalPanic

\* a division without the test for zero: IEEE 754 gives an infinity
slash_of_unchecked(left, right, op) ==
    IF ~both_numbers(left, right) THEN check_number_operands(left, right, op)
    ELSE IF right.mant = 0
    THEN EvalOk([tag |-> "Number", mant |-> Sign(left.mant), exp |-> 1024])
    ELSE EvalOk(f64_div(left, right))

\* the arm TokenType::Slash of visit_binary_expr
slash_of(left, right, op) ==
    IF ~both_numbers(left, right) THEN check_number_operands(left, right, op)
    ELSE IF right.mant = 0
    THEN EvalErr(RuntimeError(op, <<"Division by 0">>))
    ELSE EvalOk(f64_div(left, right))

\* the arm TokenType::Plus of visit_binary_expr
plus_of(left, right) ==
    IF both_numbers(left, right) THEN EvalOk(f64_add(left, right))
    ELSE IF left.tag = "String" /\ right.tag = "String"
    THEN EvalOk(StringValue(left.text \o right.text))
    ELSE EvalPanic

\* the arms of visit_binary_expr that need two numbers
numeric_arm(left, right, op) ==
    IF ~both_numbers(left, right) THEN check_number_operands(left, right, op)
    ELSE CASE op.typ = "MINUS" -> EvalOk(f64_sub(left, right))
           [] op.typ = "STAR" -> EvalOk(f64_mul(left, right))
           [] op.typ = "GREATER" -> EvalOk(BooleanValue(f64_lt(right, left)))
           [] op.typ = "GREATER_EQUAL" -> EvalOk(BooleanValue(f64_le(right, left)))
           [] op.typ = "LESS" -> EvalOk(BooleanValue(f64_lt(left, right)))
           [] op.typ = "LESS_EQUAL" -> EvalOk(BooleanValue(f64_le(left, right)))

\* the match of visit_binary_expr on the operator, both operands evaluated
binary_arm(left, right, op) ==
    CASE op.typ = "BANG_EQUAL" -> EvalOk(BooleanValue(~values_equal(left, right)))
      [] op.typ = "EQUAL_EQUAL" -> EvalOk(BooleanValue(values_equal(left, right)))
      [] op.typ \in {"MINUS", "STAR", "GREATER", "GREATER_EQUAL", "LESS",
                     "LESS_EQUAL"} -> numeric_arm(left, right, op)
      [] op.typ = "SLASH" -> slash_of(left, right, op)
      [] op.typ = "PLUS" -> plus_of(left, right)
      [] OTHER -> EvalPanic

\* the '?' after the operand of visit_unary_expr
unary_after(operator, right) ==
    IF right.kind = "Ok" THEN unary_arm(operator, right.value) ELSE right

\* a visit that evaluates the right operand before the left one
binary_after_right_first(left, right, op) ==
    IF right.kind # "Ok" THEN right
    ELSE IF left.kind # "Ok" THEN left
    ELSE binary_arm(left.value, right.value, op)

\* the two '?' of visit_binary_expr; the right operand is evaluated only
\* when the left one gave a value
binary_after(left, right, op) ==
    IF left.kind # "Ok" THEN left
    ELSE IF right.kind # "Ok" THEN right
    ELSE binary_arm(left.value, right.value, op)

\* Interpreter::evaluate: accept() dispatches on the node
RECURSIVE evaluate(_)
evaluate(expr) ==
    CASE expr.node = "Literal" -> visit_literal_expr(expr)
      [] expr.node = "Grouping" -> visit_grouping_expr(evaluate(expr.expression))
      [] expr.node = "Unary" -> unary_after(expr.operator, evaluate(expr.right))
      [] expr.node = "Binary" ->
            binary_after(evaluate(expr.left), evaluate(expr.right), expr.operator)

-----------------------------------------------------------------------------
(* The text of a value *)

RECURSIVE Digits(_)
\* the decimal digits of the natural number n
Digits(n) ==
    IF n < 10 THEN <<DigitChars[n + 1]>>
    ELSE Append(Digits(n \div 10), DigitChars[(n % 10) + 1])

Zeros(n) == [i \in 1..n |-> "0"]

\* digits ds with the point k places from the right, k >= 1
Pointed(ds, k) ==
    IF Len(ds) > k
    THEN SubSeq(ds, 1, Len(ds) - k) \o <<".">> \o SubSeq(ds, Len(ds) - k + 1, Len(ds))
    ELSE <<"0", ".">> \o Zeros(k - Len(ds)) \o ds

\* Display for f64: the plain decimal form, no exponent, no point for a whole number
display_f64(a) ==
    (IF a.mant < 0 THEN <<"-">> ELSE <<>>)
        \o (IF a.exp >= 0 THEN Digits(Abs(a.mant)) \o Zeros(a.exp)
            ELSE Pointed(Digits(Abs(a.mant)), -a.exp))

\* Display for Literal::Number: "{:.1}" when fract() == 0.0, Display otherwise
display_literal_number(a) ==
    IF a.exp >= 0 THEN display_f64(a) \o <<".", "0">> ELSE display_f64(a)

\* Display for bool
display_bool(b) ==
    IF b THEN <<"t", "r", "u", "e">> ELSE <<"f", "a", "l", "s", "e">>

\* a Display for Value that writes numbers as token literals are written
display_value_as_literal(v) ==
    CASE v.tag = "Number" -> display_literal_number(v)
      [] v.tag = "String" -> v.text
      [] v.tag = "Boolean" -> display_bool(v.bool)
      [] v.tag = "Nil" -> <<"n", "i", "l">>

\* Display for Value
display_value(v) ==
    CASE v.tag = "Number" -> display_f64(v)
      [] v.tag = "String" -> v.text
      [] v.tag = "Boolean" -> display_bool(v.bool)
      [] v.tag = "Nil" -> <<"n", "i", "l">>

-----------------------------------------------------------------------------
(* The evaluation as a state machine: one call of Interpreter::interpret   *)

\* the values of the literal nodes of the enumerated trees
LeafValues ==
    {NumberValue(0, 0), NumberValue(2, 0), NumberValue(5, 0),
     NumberValue(25, -1), StringValue(<<>>), StringValue(<<"2">>),
     BooleanValue(TRUE), BooleanValue(FALSE), NilValue}

Leaves == {LiteralNode(v) : v \in LeafValues}

\* the prefix operators, on line 1, and the binary operators, on line 2
PrefixTokens ==
    {Token("BANG", <<"!">>, NoLiteral, 1), Token("MINUS", <<"-">>, NoLiteral, 1)}

InfixTokens == {Token(w.typ, w.lexeme, NoLiteral, 2) : w \in BinaryWords}

Operands ==
    Leaves \cup {UnaryNode(o, l) : o \in PrefixTokens, l \in Leaves}
           \cup {GroupingNode(l) : l \in Leaves}

\* source texts whose trees are evaluated in addition to the enumerated ones
InterpreterExamples ==
    {\* interpreter/mod.rs:203-206
     <<"-", "7", "9">>, <<"!", "t", "r", "u", "e">>, <<"!", "n", "i", "l">>,
     <<"(", "!", "!", "5", "7", ")">>, <<"!", "!", "5", "7">>,
     <<"!", "\"", "t", "r", "u", "e", "\"">>,
     \* interpreter/mod.rs:216-219
     <<"1", "7", " ", "*", " ", "3", "4">>, <<"6", "2", " ", "/", " ", "5">>,
     <<"7", " ", "*", " ", "4", " ", "/", " ", "7", " ", "/", " ", "1">>,
     <<"(", "1", "8", " ", "*", " ", "4", " ", "/", " ", "(", "3", " ", "*",
       " ", "6", ")", ")">>,
     \* interpreter/mod.rs:180-196
     <<"5", "6">>, <<"8", "7", ".", "9", "2">>, <<"\"", "t", "r", "u", "e", "\"">>,
     <<"\"", "f", "o", "o", " ", "b", "a", "z", "\"">>,
     <<"(", "(", "f", "a", "l", "s", "e", ")", ")">>, <<"(", "3", "6", ")">>,
     \* operands of different variants
     <<"8", "8", " ", "=", "=", " ", "\"", "8", "8", "\"">>,
     <<"n", "i", "l", " ", "=", "=", " ", "f", "a", "l", "s", "e">>,
     <<"8", "8", " ", "!", "=", " ", "8", "8", ".", "0">>,
     \* errors below other operators, the operator on a later line
     <<"1", " ", "+", "\n", "-", "\"", "s", "\"", " ", "*", " ", "2">>,
     <<"(", "(", "-", "n", "i", "l", ")", ")">>,
     <<"\n", "-", "n", "i", "l">>,
     <<"1", " ", "/", "\n", "(", "2", " ", "-", " ", "2", ")">>,
     <<"1", " ", "+", " ", "\"", "s", "\"">>,
     <<"\"", "a", "\"", " ", "+", " ", "\"", "b", "\"", " ", "+", " ", "\"",
       "c", "\"">>,
     \* both operands fail, or one fails and the other one aborts
     <<"-", "n", "i", "l", " ", "=", "=", "\n", "-", "\"", "s", "\"">>,
     <<"-", "n", "i", "l", " ", "!", "=", " ", "(", "1", " ", "+", " ", "n",
       "i", "l", ")">>,
     <<"(", "1", " ", "+", " ", "n", "i", "l", ")", " ", "=", "=", " ", "-",
       "n", "i", "l">>}

\* the tree of a source text: scanned, collected and parsed as main does
TreeOf(text) == parse(tokens_of(ScanAll(scan_tokens(text)))).node

ExampleTrees == {TreeOf(text) : text \in InterpreterExamples}

Trees ==
    Operands
        \cup {BinaryNode(a, o, b) : a \in Operands, o \in InfixTokens, b \in Operands}
        \cup {UnaryNode(p, BinaryNode(a, o, b)) :
                p \in PrefixTokens, a \in Leaves, o \in InfixTokens, b \in Leaves}
        \cup {GroupingNode(GroupingNode(l)) : l \in Leaves}
        \cup ExampleTrees

InitInterpreter ==
    /\ tree \in Trees
    /\ evaluated = NotEvaluated
    /\ ScannerIdle
    /\ ParserIdle
    /\ MainIdle

\* println!("{v}") of interpret() when evaluate gave a value
printed(r) == IF r.kind = "Ok" THEN <<display_value(r.value)>> ELSE <<>>

\* Interpreter::interpret on the tree
Interpret ==
    /\ evaluated = NotEvaluated
    /\ evaluated' = evaluate(tree)
    /\ stdout' = stdout \o printed(evaluate(tree))
    /\ UNCHANGED <<tree, scanVars, parseVars, command, readable, pc,
                   has_error, stderr, exit>>

NextInterpreter == Interpret

SpecInterpreter == InitInterpreter /\ [][NextInterpreter]_vars

-----------------------------------------------------------------------------
(* Reading the outcome of an evaluation *)

Evaluated == evaluated # NotEvaluated

\* the outcome of the operand of a unary tree, of the operands of a binary one
OperandOutcome == evaluate(tree.right)
LeftOutcome == evaluate(tree.left)

\* truthiness as the language defines it
Truthy(v) == v.tag \in {"Number", "String"} \/ (v.tag = "Boolean" /\ v.bool)

BangToken == Token("BANG", <<"!">>, NoLiteral, 1)

Truth(b) == EvalOk(BooleanValue(b))

\* the failure with this message at the operator of the tree, and no value
FailsAtOperator(message) ==
    /\ DOMAIN evaluated = {"kind", "error"}
    /\ evaluated.kind = "Err"
    /\ evaluated.error.message = message
    /\ evaluated.error.token = tree.operator

\* C12: '!' on an operand that evaluated to a value v always gives the
\* Boolean that is true exactly when v is not truthy; nil and false are the
\* only values that are not truthy, so the number 0 and the empty string
\* are; '!nil' is true, '!"true"' is false and '!!57' is true.
C12_BangNegatesTruthiness ==
    Evaluated =>
        /\ (tree.node = "Unary" /\ tree.operator.typ = "BANG"
                /\ OperandOutcome.kind = "Ok") =>
              evaluated = Truth(~Truthy(OperandOutcome.value))
        /\ tree = UnaryNode(BangToken, LiteralNode(NumberValue(0, 0))) =>
              evaluated = Truth(FALSE)
        /\ tree = UnaryNode(BangToken, LiteralNode(StringValue(<<>>))) =>
              evaluated = Truth(FALSE)
        /\ tree = TreeOf(<<"!", "n", "i", "l">>) => evaluated = Truth(TRUE)
        /\ tree = TreeOf(<<"!", "\"", "t", "r", "u", "e", "\"">>) =>
              evaluated = Truth(FALSE)
        /\ tree = TreeOf(<<"!", "!", "5", "7">>) => evaluated = Truth(TRUE)

C12_Witness ==
    /\ Evaluated
    /\ tree = UnaryNode(BangToken, LiteralNode(NumberValue(0, 0)))
    /\ evaluated = Truth(FALSE)

\* C13: '-' on an operand that evaluated to the number n gives the number
\* -n; on an operand that evaluated to a string, a boolean or nil it fails
\* with "Operand must be a number." at the '-' token of the tree, and gives
\* no value; '-79' is the number -79.
C13_MinusNeedsNumber ==
    Evaluated =>
        /\ (tree.node = "Unary" /\ tree.operator.typ = "MINUS"
                /\ OperandOutcome.kind = "Ok") =>
              IF OperandOutcome.value.tag = "Number"
              THEN /\ evaluated.kind = "Ok"
                   /\ evaluated.value.tag = "Number"
                   /\ evaluated.value.mant = -OperandOutcome.value.mant
                   /\ evaluated.value.exp = OperandOutcome.value.exp
              ELSE FailsAtOperator(<<"Operand must be a number.">>)
        /\ tree = TreeOf(<<"-", "7", "9">>) =>
              evaluated = EvalOk(NumberValue(-79, 0))

\* the '-' is on line 2 and so is the error
C13_Witness ==
    /\ Evaluated
    /\ tree.node = "Unary"
    /\ tree.operator.typ = "MINUS"
    /\ tree.operator.line = 2
    /\ tree.right = LiteralNode(NilValue)
    /\ FailsAtOperator(<<"Operand must be a number.">>)
    /\ evaluated.error.token.line = 2

-----------------------------------------------------------------------------
\* both operands of a binary tree evaluated to values
BothValues ==
    tree.node = "Binary" /\ LeftOutcome.kind = "Ok" /\ OperandOutcome.kind = "Ok"

LeftValue == LeftOutcome.value
RightValue == OperandOutcome.value

BothNumbers == LeftValue.tag = "Number" /\ RightValue.tag = "Number"

\* two decimals are the same number, however they are written
SameNumber(a, b) == Scaled(a, Min(a.exp, b.exp)) = Scaled(b, Min(a.exp, b.exp))

\* the same variant with the same payload
SameValue(l, r) ==
    /\ l.tag = r.tag
    /\ CASE l.tag = "Number" -> SameNumber(l, r)
         [] l.tag = "String" -> l.text = r.text
         [] l.tag = "Boolean" -> l.bool = r.bool
         [] l.tag = "Nil" -> TRUE

\* C14: '==' on two values is true exactly when they are the same variant
\* with the same payload, '!=' is the negation of that; values of different
\* variants are unequal (88 and "88", nil and false) and neither operator
\* fails.
C14_StructuralEquality ==
    Evaluated =>
        /\ (BothValues /\ tree.operator.typ = "EQUAL_EQUAL") =>
              evaluated = Truth(SameValue(LeftValue, RightValue))
        /\ (BothValues /\ tree.operator.typ = "BANG_EQUAL") =>
              evaluated = Truth(~SameValue(LeftValue, RightValue))
        /\ tree = TreeOf(<<"8", "8", " ", "=", "=", " ", "\"", "8", "8", "\"">>) =>
              evaluated = Truth(FALSE)
        /\ tree = TreeOf(<<"n", "i", "l", " ", "=", "=", " ", "f", "a", "l",
                           "s", "e">>) =>
              evaluated = Truth(FALSE)
        /\ tree = TreeOf(<<"8", "8", " ", "!", "=", " ", "8", "8", ".", "0">>) =>
              evaluated = Truth(FALSE)

C14_Witness ==
    /\ Evaluated
    /\ tree.node = "Binary"
    /\ tree.operator.typ = "EQUAL_EQUAL"
    /\ tree.left = LiteralNode(NilValue)
    /\ tree.right = LiteralNode(BooleanValue(FALSE))
    /\ evaluated = Truth(FALSE)

-----------------------------------------------------------------------------
NumericTypes ==
    {"MINUS", "STAR", "SLASH", "GREATER", "GREATER_EQUAL", "LESS", "LESS_EQUAL"}

\* the value v is the number whose units at exponent e are n
IsNumber(v, n, e) ==
    /\ v.tag = "Number"
    /\ v.exp >= e
    /\ Scaled(v, e) = n

\* the least exponent at which the difference and the product of the two
\* operands are whole
DifferenceExp == Min(LeftValue.exp, RightValue.exp)
ProductExp == LeftValue.exp + RightValue.exp

\* what the operator of the tree gives for two numbers
NumericResult(typ) ==
    CASE typ = "MINUS" ->
            /\ evaluated.kind = "Ok"
            /\ IsNumber(evaluated.value,
                        Scaled(LeftValue, DifferenceExp)
                            - Scaled(RightValue, DifferenceExp),
                        DifferenceExp)
      [] typ = "STAR" ->
            /\ evaluated.kind = "Ok"
            /\ IsNumber(evaluated.value, LeftValue.mant * RightValue.mant,
                        ProductExp)
      [] typ = "GREATER" ->
            evaluated = Truth(Scaled(LeftValue, DifferenceExp)
                                > Scaled(RightValue, DifferenceExp))
      [] typ = "GREATER_EQUAL" ->
            evaluated = Truth(Scaled(LeftValue, DifferenceExp)
                                >= Scaled(RightValue, DifferenceExp))
      [] typ = "LESS" ->
            evaluated = Truth(Scaled(LeftValue, DifferenceExp)
                                < Scaled(RightValue, DifferenceExp))
      [] typ = "LESS_EQUAL" ->
            evaluated = Truth(Scaled(LeftValue, DifferenceExp)
                                <= Scaled(RightValue, DifferenceExp))

-----------------------------------------------------------------------------
\* C16: '/' on two numbers fails at the '/' token, with a message that is
\* not the one for operand types, whenever the right number is zero, and
\* gives no number then; otherwise it gives the quotient ('62 / 5' is 12.4,
\* '7 * 4 / 7 / 1' is 4).  A right operand that is not a number gives the
\* error for operand types.
C16_DivisionByZero ==
    Evaluated =>
        /\ (BothValues /\ tree.operator.typ = "SLASH" /\ BothNumbers
                /\ RightValue.mant = 0) =>
              /\ DOMAIN evaluated = {"kind", "error"}
              /\ evaluated.kind = "Err"
              /\ evaluated.error.token = tree.operator
              /\ evaluated.error.message # <<"Operands must be numbers.">>
        /\ (BothValues /\ tree.operator.typ = "SLASH" /\ BothNumbers
                /\ RightValue.mant # 0) =>
              /\ evaluated.kind = "Ok"
              /\ evaluated.value.tag = "Number"
              /\ SameNumber(f64_mul(evaluated.value, RightValue), LeftValue)
        /\ (BothValues /\ tree.operator.typ = "SLASH"
                /\ RightValue.tag # "Number") =>
              FailsAtOperator(<<"Operands must be numbers.">>)
        /\ tree = TreeOf(<<"6", "2", " ", "/", " ", "5">>) =>
              evaluated = EvalOk(NumberValue(124, -1))
        /\ tree = TreeOf(<<"7", " ", "*", " ", "4", " ", "/", " ", "7", " ",
                           "/", " ", "1">>) =>
              evaluated = EvalOk(NumberValue(4, 0))

\* the divisor is a difference that is zero
C16_Witness ==
    /\ Evaluated
    /\ tree = TreeOf(<<"1", " ", "/", "\n", "(", "2", " ", "-", " ", "2", ")">>)
    /\ evaluated.kind = "Err"
    /\ evaluated.error.message = <<"Division by 0">>
    /\ evaluated.error.token.typ = "SLASH"

-----------------------------------------------------------------------------
\* C17 as stated: '+' on two numbers gives their sum, on two strings their
\* concatenation, and on every other pair of values the evaluation returns
\* a RuntimeError to the caller: it does not abort and gives no value.
C17_PlusOperands ==
    (Evaluated /\ BothValues /\ tree.operator.typ = "PLUS") =>
        IF BothNumbers
        THEN /\ evaluated.kind = "Ok"
             /\ IsNumber(evaluated.value,
                         Scaled(LeftValue, DifferenceExp)
                             + Scaled(RightValue, DifferenceExp),
                         DifferenceExp)
        ELSE IF LeftValue.tag = "String" /\ RightValue.tag = "String"
        THEN evaluated = EvalOk(StringValue(LeftValue.text \o RightValue.text))
        ELSE evaluated.kind = "Err"

\* the part of C17 about operands of one variant
C17_SameVariantOperands ==
    (Evaluated /\ BothValues /\ tree.operator.typ = "PLUS"
        /\ LeftValue.tag = RightValue.tag
        /\ LeftValue.tag \in {"Number", "String"}) => C17_PlusOperands

-----------------------------------------------------------------------------
\* the tree without its Grouping nodes
RECURSIVE Ungrouped(_)
Ungrouped(e) ==
    CASE e.node = "Grouping" -> Ungrouped(e.expression)
      [] e.node = "Unary" -> UnaryNode(e.operator, Ungrouped(e.right))
      [] e.node = "Binary" ->
            BinaryNode(Ungrouped(e.left), e.operator, Ungrouped(e.right))
      [] OTHER -> e

\* C18: a Literal node evaluates to its payload and never fails; a Grouping
\* evaluates to the outcome of its child, value or error, at any depth, so
\* removing every Grouping from a tree does not change its outcome.  The
\* source '"true"' gives the String true and not the Boolean, '((false))'
\* the Boolean false, '56' and '87.92' those numbers, and '((-nil))' fails
\* as '-nil' does.
C18_LiteralsAndGroups ==
    Evaluated =>
        /\ tree.node = "Literal" => evaluated = EvalOk(tree.value)
        /\ tree.node = "Grouping" => evaluated = evaluate(tree.expression)
        /\ evaluated = evaluate(Ungrouped(tree))
        /\ tree = TreeOf(<<"\"", "t", "r", "u", "e", "\"">>) =>
              evaluated = EvalOk(StringValue(<<"t", "r", "u", "e">>))
        /\ tree = TreeOf(<<"(", "(", "f", "a", "l", "s", "e", ")", ")">>) =>
              evaluated = Truth(FALSE)
        /\ tree = TreeOf(<<"5", "6">>) => evaluated = EvalOk(NumberValue(56, 0))
        /\ tree = TreeOf(<<"8", "7", ".", "9", "2">>) =>
              evaluated = EvalOk(NumberValue(8792, -2))
        /\ tree = TreeOf(<<"(", "(", "-", "n", "i", "l", ")", ")">>) =>
              /\ evaluated.kind = "Err"
              /\ evaluated.error.message = <<"Operand must be a number.">>
              /\ evaluated.error.token.typ = "MINUS"

\* an error that comes up through two groups
C18_Witness ==
    /\ Evaluated
    /\ tree.node = "Grouping"
    /\ tree.expression.node = "Grouping"
    /\ tree.expression.expression.node = "Unary"
    /\ evaluated.kind = "Err"

-----------------------------------------------------------------------------
(* Reading the output of interpret() *)

Printed == Evaluated /\ evaluated.kind = "Ok"

\* the one line that was printed
Line == stdout[1]

Has(text, c) == \E i \in 1..Len(text) : text[i] = c

Unsigned(text) ==
    IF text # <<>> /\ text[1] = "-" THEN Tail(text) ELSE text

\* text is a plain decimal numeral (digits, at most one part after a point,
\* no exponent, a '-' in front of a negative number) that denotes v
Denotes(text, v) ==
    /\ (text # <<>> /\ text[1] = "-") <=> v.mant < 0
    /\ \A i \in 1..Len(Unsigned(text)) :
          is_ascii_digit(Unsigned(text)[i]) \/ Unsigned(text)[i] = "."
    /\ parse_f64_ok(Unsigned(text))
    /\ parse_f64(Unsigned(text)) = NumberLiteral(Abs(v.mant), v.exp)

EndsWithPointZero(text) ==
    /\ Len(text) >= 3
    /\ SubSeq(text, Len(text) - 1, Len(text)) = <<".", "0">>
    /\ ~Has(SubSeq(text, 1, Len(text) - 2), ".")

\* what is printed for a value that is not a number
PrintedAsIs ==
    Printed =>
        /\ Len(stdout) = 1
        /\ evaluated.value.tag = "String" => Line = evaluated.value.text
        /\ evaluated.value.tag = "Boolean" =>
              Line = IF evaluated.value.bool THEN <<"t", "r", "u", "e">>
                     ELSE <<"f", "a", "l", "s", "e">>
        /\ evaluated.value.tag = "Nil" => Line = <<"n", "i", "l">>

\* C19 as stated: the line printed for the value of the evaluation is, for
\* a Number without fractional part, its integer digits followed by ".0"
\* (4 prints as 4.0); for any other Number its plain decimal form; for a
\* String its text without quotes; true or false; nil.
C19_PointZero ==
    /\ PrintedAsIs
    /\ (Printed /\ evaluated.value.tag = "Number") =>
          /\ Denotes(Line, evaluated.value)
          /\ evaluated.value.exp >= 0 => EndsWithPointZero(Line)
    /\ tree = TreeOf(<<"7", " ", "*", " ", "4", " ", "/", " ", "7", " ", "/",
                       " ", "1">>) =>
          (Printed => Line = <<"4", ".", "0">>)

\* C19, amended: the line printed for a Number is its plain decimal form,
\* which for a Number without fractional part is its integer digits alone,
\* with no point (4 prints as 4, 12.4 as 12.4); the other variants print as
\* stated; nothing is printed when the evaluation fails.
C19_PlainDecimal ==
    /\ PrintedAsIs
    /\ (Printed /\ evaluated.value.tag = "Number") =>
          /\ Denotes(Line, evaluated.value)
          /\ evaluated.value.exp >= 0 <=> ~Has(Line, ".")
    /\ (Evaluated /\ ~Printed) => stdout = <<>>
    /\ tree = TreeOf(<<"7", " ", "*", " ", "4", " ", "/", " ", "7", " ", "/",
                       " ", "1">>) =>
          (Printed => Line = <<"4">>)
    /\ tree = TreeOf(<<"6", "2", " ", "/", " ", "5">>) =>
          (Printed => Line = <<"1", "2", ".", "4">>)

C19_Witness ==
    /\ Printed
    /\ tree = TreeOf(<<"7", " ", "*", " ", "4", " ", "/", " ", "7", " ", "/",
                       " ", "1">>)
    /\ evaluated = EvalOk(NumberValue(4, 0))
    /\ stdout = << <<"4">> >>

-----------------------------------------------------------------------------
(* main (src/src/main.rs): a run of one subcommand on one file.  The run   *)
(* goes through read_file, the loop of tokenize() over the token stream,   *)
(* parse() and evaluate(); pc is the stage it is in.  input collects the   *)
(* Vec of tokens that tokenize() returns and Parser::from takes.           *)

Commands == {"tokenize", "parse", "evaluate"}

\* the source texts of the runs: the short texts over Alphabet and the
\* examples of the scanner, the parser and the interpreter
MainSources ==
    SeqsUpTo(Alphabet, MaxLen - 1) \cup Examples \cup ParserExamples
        \cup InterpreterExamples

InitMain ==
    /\ command \in Commands
    /\ readable \in BOOLEAN
    /\ src \in IF readable THEN MainSources ELSE {<<>>}
    /\ chars = scan_tokens(src).chars
    /\ lead = scan_tokens(src).lead
    /\ line = scan_tokens(src).line
    /\ at_end = scan_tokens(src).at_end
    /\ out = <<>>
    /\ upto = <<>>
    /\ lines = <<>>
    /\ nones = 0
    /\ panicked = FALSE
    /\ ParserIdle
    /\ InterpreterIdle
    /\ pc = "read"
    /\ has_error = FALSE
    /\ stdout = <<>>
    /\ stderr = <<>>
    /\ exit = Running

\* writeln!(sink, "{tkn}"), writeln!(sink, "{}", AstPrinter.print(&expr))
TokenLine(token) == [wrote |-> "token", token |-> token]
AstLine(node) == [wrote |-> "ast", node |-> node]

\* the sink of tokenize() is standard output for the tokenize subcommand
\* only, the sink of parse() for the parse subcommand only; otherwise null()
Written(for, ln) == IF command = for THEN Append(stdout, ln) ELSE stdout

\* read_file
ReadFile ==
    /\ pc = "read"
    /\ pc' = IF readable THEN "scan" ELSE "done"
    /\ exit' = IF readable THEN exit ELSE 1
    /\ stderr' = IF readable THEN stderr
                 ELSE Append(stderr, <<"Failed to read file">>)
    /\ UNCHANGED <<scanVars, parseVars, evalVars, command, readable, has_error,
                   stdout>>

\* the loop of tokenize() is about to take the next item of the stream
Scanning == pc = "scan" /\ ~panicked

NextItem == next(Stream)

\* Ok(ScanItem::Ignore) => continue
TokenizeIgnore ==
    /\ Scanning
    /\ ~NextItem.panic
    /\ NextItem.item = Ignore
    /\ ScanStep
    /\ UNCHANGED <<parseVars, evalVars, mainVars>>

\* Ok(ScanItem::Token(tkn)): the token is written to the sink and pushed
TokenizeToken ==
    /\ Scanning
    /\ ~NextItem.panic
    /\ IsToken(NextItem.item)
    /\ ScanStep
    /\ stdout' = Written("tokenize", TokenLine(NextItem.item.token))
    /\ input' = Append(input, NextItem.item.token)
    /\ UNCHANGED <<tokens, parsed, evalVars, command, readable, pc, has_error,
                   stderr, exit>>

\* an arm Err that ends the run at once
TokenizeErrorStops ==
    /\ Scanning
    /\ ~NextItem.panic
    /\ IsError(NextItem.item)
    /\ ScanStep
    /\ has_error' = TRUE
    /\ stderr' = Append(stderr, NextItem.item.report)
    /\ pc' = "done"
    /\ exit' = 65
    /\ UNCHANGED <<parseVars, evalVars, command, readable, stdout>>

\* Err(err): has_error is set and the report goes to standard error
TokenizeError ==
    /\ Scanning
    /\ ~NextItem.panic
    /\ IsError(NextItem.item)
    /\ ScanStep
    /\ has_error' = TRUE
    /\ stderr' = Append(stderr, NextItem.item.report)
    /\ UNCHANGED <<parseVars, evalVars, command, readable, pc, stdout, exit>>

\* next() panics: the process aborts with the exit code of a Rust panic
TokenizeAbort ==
    /\ Scanning
    /\ NextItem.panic
    /\ ScanStep
    /\ pc' = "done"
    /\ exit' = 101
    /\ UNCHANGED <<parseVars, evalVars, command, readable, has_error, stdout,
                   stderr>>

\* the stream gives None: the loop ends, exit(65) if has_error, else the
\* tokens are returned, to main or to parse()
TokenizeEnd ==
    /\ Scanning
    /\ ~NextItem.panic
    /\ NextItem.item = NoItem
    /\ ScanStep
    /\ pc' = IF has_error \/ command = "tokenize" THEN "done" ELSE "parse"
    /\ exit' = IF has_error THEN 65
               ELSE IF command = "tokenize" THEN 0 ELSE exit
    /\ tokens' = IF has_error \/ command = "tokenize" THEN tokens ELSE input
    /\ UNCHANGED <<input, parsed, evalVars, command, readable, has_error,
                   stdout, stderr>>

\* the match of parse() on the result r of parser.parse()
ParseArms(r) ==
    /\ stdout' = IF r.kind = "Ok" THEN Written("parse", AstLine(r.node))
                 ELSE stdout
    /\ stderr' = IF r.kind = "Err" THEN Append(stderr, r.report) ELSE stderr
    /\ tree' = IF r.kind = "Ok" /\ command = "evaluate" THEN r.node ELSE tree
    /\ pc' = IF r.kind = "Ok" /\ command = "evaluate" THEN "evaluate" ELSE "done"
    /\ exit' = CASE r.kind = "Err" -> 65
                 [] r.kind = "Panic" -> 101
                 [] r.kind = "Ok" -> IF command = "evaluate" THEN exit ELSE 0

\* parse(): Parser::from(tokens), parser.parse() and the match on its result
MainParse ==
    /\ pc = "parse"
    /\ parsed' = parse(tokens)
    /\ tokens' = parse(tokens).rest
    /\ ParseArms(parse(tokens))
    /\ UNCHANGED <<input, evaluated, scanVars, command, readable, has_error>>

\* the if let of evaluate() on the result r of interpreter.interpret()
EvaluateArms(r) ==
    /\ stdout' = stdout \o printed(r)
    /\ stderr' = IF r.kind = "Err" THEN Append(stderr, r.error) ELSE stderr
    /\ exit' = CASE r.kind = "Err" -> 70
                 [] r.kind = "Panic" -> 101
                 [] r.kind = "Ok" -> 0

\* evaluate(): interpreter.interpret(&expr)
MainEvaluate ==
    /\ pc = "evaluate"
    /\ evaluated' = evaluate(tree)
    /\ EvaluateArms(evaluate(tree))
    /\ pc' = "done"
    /\ UNCHANGED <<tree, scanVars, parseVars, command, readable, has_error>>

NextMain ==
    \/ ReadFile
    \/ TokenizeIgnore
    \/ TokenizeToken
    \/ TokenizeError
    \/ TokenizeAbort
    \/ TokenizeEnd
    \/ MainParse
    \/ MainEvaluate

SpecMain == InitMain /\ [][NextMain]_vars

-----------------------------------------------------------------------------
(* Reading a run *)

\* the reports among the items of a scan, in order
RECURSIVE ReportsOf(_)
ReportsOf(items) ==
    IF items = <<>> THEN <<>>
    ELSE IF IsError(Head(items))
    THEN <<Head(items).report>> \o ReportsOf(Tail(items))
    ELSE ReportsOf(Tail(items))

\* every item of the source, scanned in one go
WholeScan == ScanAll(scan_tokens(src))

\* the loop of tokenize() has ended and the process did not abort in it
ScanOver == readable /\ ~panicked /\ pc \in {"parse", "evaluate", "done"}

C20_WitnessEvaluate ==
    /\ ScanOver
    /\ command = "evaluate"
    /\ has_error
    /\ exit = 65
    /\ Len(input) >= 2
    /\ ~Parsed

-----------------------------------------------------------------------------
(* The outcome of a run *)

\* the run has ended: the process has exited
Ended == pc = "done"

\* what the stages found
Unreadable == ~readable
LexicalError == has_error
SyntaxError == Parsed /\ parsed.kind = "Err"
RuntimeFailure == Evaluated /\ evaluated.kind = "Err"

\* a stage aborted the process: the expect of number(), an arm todo!() or
\* panic!() of the evaluator
Aborted ==
    \/ panicked
    \/ Parsed /\ parsed.kind = "Panic"
    \/ Evaluated /\ evaluated.kind = "Panic"

\* the subcommand went through all its stages
Succeeded ==
    /\ readable /\ ScanOver /\ ~has_error
    /\ \/ command = "tokenize"
       \/ command = "parse" /\ Parsed /\ parsed.kind = "Ok"
       \/ command = "evaluate" /\ Printed

\* a value is on standard output (standard output of the evaluate subcommand
\* gets nothing else)
ValuePrinted == command = "evaluate" /\ stdout # <<>>

\* the stages are entered in the order read, scan, parse, evaluate, each
\* only after the ones before it succeeded
StageOrder ==
    /\ pc = "read" => out = <<>> /\ ~Parsed /\ ~Evaluated
    /\ pc = "scan" => ~Parsed /\ ~Evaluated
    /\ pc = "parse" => ScanOver /\ ~has_error /\ ~Parsed /\ ~Evaluated
    /\ pc = "evaluate" => ScanOver /\ ~has_error /\ Parsed /\ parsed.kind = "Ok"
                          /\ ~Evaluated
    /\ Unreadable => out = <<>> /\ ~Parsed /\ ~Evaluated
    /\ Parsed => ScanOver /\ ~has_error /\ command # "tokenize"
    /\ Evaluated => Parsed /\ parsed.kind = "Ok" /\ command = "evaluate"

\* the exit code of each outcome
ExitCodes ==
    /\ exit = Running <=> ~Ended
    /\ exit = 1 <=> Ended /\ Unreadable
    /\ exit = 65 <=> Ended /\ (LexicalError \/ SyntaxError)
    /\ exit = 70 <=> Ended /\ RuntimeFailure
    /\ exit = 0 <=> Ended /\ Succeeded
    /\ ValuePrinted => exit = 0 /\ Printed /\ stdout = printed(evaluated)

\* C21: every run ends with one of the four exit codes 1 (unreadable file),
\* 65 (a lexical or a syntax error), 70 (a runtime error) and 0 (success,
\* whenever none of the three failures happened); the stages run in the
\* order read, scan, parse, evaluate, the earliest failing one decides, and
\* a value is printed only by a successful evaluate.
C21_FourOutcomes ==
    /\ StageOrder
    /\ ExitCodes
    /\ Ended => exit \in {0, 1, 65, 70}
    /\ (Ended /\ ~Unreadable /\ ~LexicalError /\ ~SyntaxError /\ ~RuntimeFailure)
          => exit = 0

\* the runs in which no stage aborts end with one of the four codes
C21_OutcomesOfRunsThatReturn ==
    /\ StageOrder
    /\ ExitCodes
    /\ exit = 101 <=> Ended /\ Aborted
    /\ (Ended /\ ~Aborted) => exit \in {0, 1, 65, 70}

\* a run of evaluate that ends with none of the four codes: the operands of
\* '+' are of different variants
C21_AbortedEvaluation ==
    /\ Ended
    /\ command = "evaluate"
    /\ Evaluated /\ evaluated = EvalPanic
    /\ exit = 101
    /\ stdout = <<>>

-----------------------------------------------------------------------------
(* The order of an evaluation *)

NoFailure == [kind |-> "None"]

\* the outcome of the first evaluation that does not give a value in a walk
\* that goes through the operand of a unary node before its operator, and
\* through the left operand, then the right operand of a binary node before
\* its operator; NoFailure when every evaluation gives a value
RECURSIVE FirstFailure(_)
FirstFailure(expr) ==
    CASE expr.node = "Literal" -> NoFailure
      [] expr.node = "Grouping" -> FirstFailure(expr.expression)
      [] expr.node = "Unary" ->
            IF FirstFailure(expr.right) # NoFailure THEN FirstFailure(expr.right)
            ELSE IF evaluate(expr).kind = "Ok" THEN NoFailure
            ELSE evaluate(expr)
      [] expr.node = "Binary" ->
            IF FirstFailure(expr.left) # NoFailure THEN FirstFailure(expr.left)
            ELSE IF FirstFailure(expr.right) # NoFailure
            THEN FirstFailure(expr.right)
            ELSE IF evaluate(expr).kind = "Ok" THEN NoFailure
            ELSE evaluate(expr)

EqualityTypes == {"EQUAL_EQUAL", "BANG_EQUAL"}

C22_WitnessRightFails ==
    /\ Evaluated
    /\ tree.node = "Binary"
    /\ tree.operator.typ \in EqualityTypes
    /\ LeftOutcome.kind = "Ok"
    /\ OperandOutcome.kind = "Err"
    /\ evaluated = OperandOutcome

\* the left operand fails and the right one would abort: no abort
C22_WitnessRightNotEvaluated ==
    /\ Evaluated
    /\ tree.node = "Binary"
    /\ LeftOutcome.kind = "Err"
    /\ OperandOutcome.kind = "Panic"
    /\ evaluated = LeftOutcome

-----------------------------------------------------------------------------
(* The tokens a parse leaves *)

\* parser.parse() returned a tree
ReturnedTree == Parsed /\ parsed.kind = "Ok"

\* the tokens the parser has taken from its list
Consumed == SubSeq(input, 1, Len(input) - Len(tokens))

\* C23: when Parser::parse returns a tree for a token list that ends with
\* the EOF token, every token before the EOF token has been consumed: the
\* next token of the parser is the EOF token.
C23_WholeListConsumed ==
    ReturnedTree => tokens = <<input[Len(input)]>> /\ Head(tokens).typ = "EOF"

\* what parse() guarantees instead: the tokens left are the end of the list,
\* the EOF token included, and the first of them is no binary operator
C23_LongestExpressionConsumed ==
    ReturnedTree =>
        /\ tokens # <<>>
        /\ Consumed # <<>>
        /\ input = Consumed \o tokens
        /\ Head(tokens).typ \notin BinaryTypes

\* a tree is returned for a list with a whole expression left in it
C23_TokensLeftOver ==
    /\ ReturnedTree
    /\ Len(tokens) >= 2
    /\ Head(tokens).typ \in LiteralTypes \cup {"LEFT_PAREN", "RIGHT_PAREN"}
    /\ parsed.node = parse(Consumed \o <<input[Len(input)]>>).node

-----------------------------------------------------------------------------
(* String tokens *)

\* the first '"' of src after position i, 0 when there is none
RECURSIVE ClosingQuote(_)
ClosingQuote(i) ==
    IF i >= Len(src) THEN 0
    ELSE IF src[i + 1] = "\"" THEN i + 1
    ELSE ClosingQuote(i + 1)

NewlinesOf(s) == NewlinesIn(s, Len(s))

\* C24: a call of next() that starts at a '"' with a later '"' returns a
\* STRING token and no other call does.  The token's lexeme is the source
\* text from that quote through the next quote, whatever is between them
\* (blanks, newlines, "//"); its literal is the lexeme without its first
\* and last character; the line counter grows by the number of newlines
\* between the quotes; and the token's line is the counter after them, the
\* line of the closing quote.
C24_StringToken ==
    \A k \in 1..Len(out) :
        /\ (FromChar(k) /\ src[Start(k)] = "\"" /\ ClosingQuote(Start(k)) # 0)
              => IsTokenOf(out[k], "STRING")
        /\ IsTokenOf(out[k], "STRING") =>
              /\ FromChar(k)
              /\ src[Start(k)] = "\""
              /\ ClosingQuote(Start(k)) # 0
              /\ upto[k] = ClosingQuote(Start(k))
              /\ out[k].token.lexeme = SubSeq(src, Start(k), upto[k])
              /\ out[k].token.literal =
                     StringLiteral(SubSeq(src, Start(k) + 1, upto[k] - 1))
              /\ Len(out[k].token.literal.text) = Len(out[k].token.lexeme) - 2
              /\ lines[k] = LineBefore(k) + NewlinesOf(out[k].token.literal.text)
              /\ out[k].token.line = lines[k]
              /\ out[k].token.line = 1 + NewlinesIn(src, upto[k])

\* a string over two lines: the newline is in the lexeme and in the
\* literal, and the token is on line 2
C24_Witness ==
    \E k \in 1..Len(out) :
        /\ IsTokenOf(out[k], "STRING")
        /\ out[k].token.lexeme = <<"\"", "a", "\n", "b", "\"">>
        /\ out[k].token.literal = StringLiteral(<<"a", "\n", "b">>)
        /\ LineBefore(k) = 1
        /\ out[k].token.line = 2

\* the empty string
C24_WitnessEmpty ==
    \E k \in 1..Len(out) :
        /\ IsTokenOf(out[k], "STRING")
        /\ out[k].token.lexeme = <<"\"", "\"">>
        /\ out[k].token.literal = StringLiteral(<<>>)

\* a comment marker between the quotes
C24_WitnessCommentMarker ==
    \E k \in 1..Len(out) : \E i \in 1..Len(src) :
        /\ IsTokenOf(out[k], "STRING")
        /\ Start(k) < i /\ i + 1 < upto[k]
        /\ src[i] = "/" /\ src[i + 1] = "/"
        /\ out[k].token.literal.text = SubSeq(src, Start(k) + 1, upto[k] - 1)
        /\ at_end /\ Len(out) = 2

-----------------------------------------------------------------------------
(* Prefix operators *)

IsPrefix(i) == input[i].typ \in {"BANG", "MINUS"}

\* the number of prefix operators in a row from input[i] on
RECURSIVE PrefixRun(_)
PrefixRun(i) == IF i <= Last /\ IsPrefix(i) THEN 1 + PrefixRun(i + 1) ELSE 0

\* k unary nodes, one in the other, with the operators input[i], input[i + 1],
\* ... from the outermost to the innermost, around node
RECURSIVE Nested(_, _, _)
Nested(i, k, node) ==
    IF k = 0 THEN node ELSE UnaryNode(input[i], Nested(i + 1, k - 1, node))

\* the first operand of a tree: down the left operands of its binary nodes
RECURSIVE LeftmostOperand(_)
LeftmostOperand(node) ==
    IF node.node = "Binary" THEN LeftmostOperand(node.left) ELSE node

\* what is below the unary nodes at the top of a tree
RECURSIVE Innermost(_)
Innermost(node) == IF node.node = "Unary" THEN Innermost(node.right) ELSE node

\* the number of unary nodes at the top of a tree
RECURSIVE UnaryDepth(_)
UnaryDepth(node) ==
    IF node.node = "Unary" THEN 1 + UnaryDepth(node.right) ELSE 0

\* no unary node of the tree has a binary node as its operand
RECURSIVE PrefixBindsTightest(_)
PrefixBindsTightest(node) ==
    CASE node.node = "Literal" -> TRUE
      [] node.node = "Grouping" -> PrefixBindsTightest(node.expression)
      [] node.node = "Unary" ->
            node.right.node # "Binary" /\ PrefixBindsTightest(node.right)
      [] node.node = "Binary" ->
            PrefixBindsTightest(node.left) /\ PrefixBindsTightest(node.right)

LiteralAt(i) == LiteralNode(ValueOf(input[i]))

\* the rule for a list that starts with k prefix operators
PrefixRule(k) ==
    /\ (k + 1 = Last /\ input[k + 1].typ \in LiteralTypes) =>
          /\ parsed.kind = "Ok"
          /\ parsed.node = Nested(1, k, LiteralAt(k + 1))
    /\ (ReturnedTree /\ input[k + 1].typ \in LiteralTypes) =>
          LeftmostOperand(parsed.node) = Nested(1, k, LiteralAt(k + 1))
    /\ (ReturnedTree /\ input[k + 1].typ = "LEFT_PAREN") =>
          /\ UnaryDepth(LeftmostOperand(parsed.node)) = k
          /\ Innermost(LeftmostOperand(parsed.node)).node = "Grouping"
          /\ LeftmostOperand(parsed.node) =
                 Nested(1, k, Innermost(LeftmostOperand(parsed.node)))

\* C25: a list that starts with k prefix operators '!' and '-' followed by
\* a primary parses into k unary nodes, one in the other, in source order
\* from the outermost, around that primary alone: they are the first operand
\* of whatever binary operators follow.  No unary node has a binary node as
\* its operand; a prefix operator after a binary one takes only the operand
\* that follows it.  "!!false" is (! (! false)), "-58 + 98" is
\* (+ (- 58) 98) and "76 * -39" is (* 76 (- 39)).
C25_PrefixOperators ==
    Parsed =>
      /\ PrefixRule(PrefixRun(1))
      /\ ReturnedTree => PrefixBindsTightest(parsed.node)
      /\ (Last = 4 /\ IsPrefix(1) /\ input[2].typ \in LiteralTypes
            /\ input[3].typ \in BinaryTypes /\ input[4].typ \in LiteralTypes) =>
            parsed.node =
                BinaryNode(UnaryNode(input[1], LiteralAt(2)), input[3],
                           LiteralAt(4))
      /\ (Last = 4 /\ input[1].typ \in LiteralTypes
            /\ input[2].typ \in BinaryTypes /\ IsPrefix(3)
            /\ input[4].typ \in LiteralTypes) =>
            parsed.node =
                BinaryNode(LiteralAt(1), input[2],
                           UnaryNode(input[3], LiteralAt(4)))
      /\ (Last = 3 /\ input[3].typ = "FALSE") =>
            parsed.node =
                UnaryNode(input[1],
                          UnaryNode(input[2], LiteralNode(BooleanValue(FALSE))))
      /\ (Last = 4 /\ input[2].lexeme = <<"5", "8">>) =>
            parsed.node =
                BinaryNode(UnaryNode(input[1], Number(58)), input[3], Number(98))
      /\ (Last = 4 /\ input[1].lexeme = <<"7", "6">>) =>
            parsed.node =
                BinaryNode(Number(76), input[2], UnaryNode(input[3], Number(39)))

\* two prefix operators before a literal
C25_Witness ==
    /\ ReturnedTree
    /\ Last = 3
    /\ PrefixRun(1) = 2
    /\ input[1].typ = "MINUS" /\ input[2].typ = "BANG"
    /\ parsed.node = UnaryNode(input[1], UnaryNode(input[2], LiteralAt(3)))
    /\ tokens = <<input[4]>>

\* prefix operators on both sides of a binary operator, the first ones
\* before a group
C25_WitnessBothSides ==
    /\ ReturnedTree
    /\ PrefixRun(1) = 3
    /\ input[4].typ = "LEFT_PAREN"
    /\ parsed.node.node = "Binary"
    /\ parsed.node.operator.typ = "LESS"
    /\ UnaryDepth(parsed.node.left) = 3
    /\ Innermost(parsed.node.left) = GroupingNode(Number(1))
    /\ parsed.node.right = Nested(8, 2, Number(2))

-----------------------------------------------------------------------------
(* The operators of a tree *)

\* the match of visit_unary_expr, of visit_binary_expr on this operator
\* takes the arm `_ => panic!`: no other arm aborts on a number, on two
\* numbers that are not zero
UnexpectedUnary(operator) ==
    unary_arm(operator, NumberValue(1, 0)) = EvalPanic

UnexpectedBinary(operator) ==
    binary_arm(NumberValue(1, 0), NumberValue(2, 0), operator) = EvalPanic

\* every operator of the tree is one the evaluator has an arm for
RECURSIVE OperatorsExpected(_)
OperatorsExpected(node) ==
    CASE node.node = "Literal" -> TRUE
      [] node.node = "Grouping" -> OperatorsExpected(node.expression)
      [] node.node = "Unary" ->
            /\ node.operator.typ \in {"BANG", "MINUS"}
            /\ ~UnexpectedUnary(node.operator)
            /\ OperatorsExpected(node.right)
      [] node.node = "Binary" ->
            /\ node.operator.typ \in BinaryTypes
            /\ ~UnexpectedBinary(node.operator)
            /\ OperatorsExpected(node.left)
            /\ OperatorsExpected(node.right)

\* the number of unary and binary nodes of a tree
RECURSIVE OperatorNodes(_)
OperatorNodes(node) ==
    CASE node.node = "Literal" -> 0
      [] node.node = "Grouping" -> OperatorNodes(node.expression)
      [] node.node = "Unary" -> 1 + OperatorNodes(node.right)
      [] node.node = "Binary" ->
            1 + OperatorNodes(node.left) + OperatorNodes(node.right)

\* C26: in every tree the parser returns the operator of each unary node is
\* BANG or MINUS and the operator of each binary node is one of the ten
\* binary operators, so the evaluator never takes the arm `_ => panic!` of
\* visit_unary_expr or of visit_binary_expr for a node of such a tree.
C26_OperatorsOfReturnedTrees ==
    ReturnedTree => OperatorsExpected(parsed.node)

\* a returned tree with unary and binary nodes, a '-' of each kind
C26_Witness ==
    /\ ReturnedTree
    /\ OperatorNodes(parsed.node) >= 5
    /\ parsed.node.node = "Binary"
    /\ parsed.node.operator.typ = "GREATER_EQUAL"
    /\ parsed.node.right.node = "Unary"
    /\ parsed.node.right.operator.typ = "MINUS"
    /\ parsed.node.left.node = "Grouping"
    /\ parsed.node.left.expression.operator.typ = "MINUS"

-----------------------------------------------------------------------------
(* The end of the token list *)

ParserMessages == {<<"Expect ')' after expression">>, <<"Expect expression">>}

\* every token of the tree's text is before the EOF token: the operators of
\* the tree are tokens of the list and none is the EOF token
RECURSIVE NoEofIn(_)
NoEofIn(node) ==
    CASE node.node = "Literal" -> TRUE
      [] node.node = "Grouping" -> NoEofIn(node.expression)
      [] node.node = "Unary" -> node.operator.typ # "EOF" /\ NoEofIn(node.right)
      [] node.node = "Binary" ->
            node.operator.typ # "EOF" /\ NoEofIn(node.left) /\ NoEofIn(node.right)

\* C27: for a token list that ends with the EOF token, as the scanner makes
\* them, Parser::parse returns Ok or Err and does not abort.  The EOF token
\* is never consumed: it is still in the list after the parse, so there is
\* a current token for every report, the one of next_ok that is built after
\* the expected ')' has been consumed included; the report of an Err is the
\* report at the current token.
C27_ParseReturns ==
    /\ input # <<>> /\ input[Len(input)].typ = "EOF"
    /\ Parsed =>
          /\ parsed.kind \in {"Ok", "Err"}
          /\ tokens # <<>>
          /\ Len(tokens) <= Len(input)
          /\ tokens = SubSeq(input, Len(input) - Len(tokens) + 1, Len(input))
          /\ tokens[Len(tokens)].typ = "EOF"
          /\ parsed.kind = "Ok" => NoEofIn(parsed.node)
          /\ parsed.kind = "Err" =>
                \E message \in ParserMessages :
                    parsed.report = error_at_token(Head(tokens), message)

\* a group whose ')' is the last token before the EOF token: next_ok builds
\* its report at the EOF token and drops it
C27_Witness ==
    /\ ReturnedTree
    /\ input[Last].typ = "RIGHT_PAREN"
    /\ parsed.node.node = "Grouping"
    /\ tokens = <<input[Len(input)]>>

\* a report at the EOF token
C27_WitnessReportAtEof ==
    /\ Parsed
    /\ parsed.kind = "Err"
    /\ tokens = <<input[Len(input)]>>
    /\ Len(input) >= 3
    /\ parsed.report.location = <<" at end">>

-----------------------------------------------------------------------------
(* The line counter *)

\* the characters of src the stream has consumed
ConsumedChars == Len(src) - Len(chars)

Carries(k) == IsToken(out[k]) \/ IsError(out[k])

\* the line a token or a report carries
LineOf(k) ==
    IF IsToken(out[k]) THEN out[k].token.line ELSE out[k].report.line

\* C28: the line counter is 1 plus the number of newlines consumed so far,
\* after every call of next() and whether a newline was skipped between
\* tokens or read inside a string; it starts at 1 and never decreases.  A
\* token or a report carries the value of the counter when its call
\* returns, so the lines of successive items never decrease, and the line
\* of the EOF token is 1 plus the number of newlines of the source.
C28_LineCounter ==
    /\ line = 1 + NewlinesIn(src, ConsumedChars)
    /\ line >= 1
    /\ out = <<>> => line = 1
    /\ \A k \in 1..Len(out) :
          /\ LineBefore(k) >= 1
          /\ lines[k] >= LineBefore(k)
          /\ lines[k] = 1 + NewlinesIn(src, upto[k])
          /\ lines[k] - LineBefore(k) =
                 NewlinesOf(SubSeq(src, Start(k), upto[k]))
          /\ Carries(k) => LineOf(k) = lines[k]
          /\ \A j \in 1..(k - 1) :
                (Carries(j) /\ Carries(k)) => LineOf(j) <= LineOf(k)
          /\ IsTokenOf(out[k], "EOF") =>
                out[k].token.line = 1 + NewlinesOf(src)
    /\ line <= 1 + NewlinesOf(src)

\* a newline before a string and one inside it: the string token and the
\* report after it are on line 3, the EOF token on line 4
C28_Witness ==
    /\ at_end
    /\ Len(out) >= 4
    /\ out[1] = Ignore /\ lines[1] = 2
    /\ IsTokenOf(out[2], "STRING") /\ LineOf(2) = 3
    /\ \E k \in 3..Len(out) : IsError(out[k]) /\ LineOf(k) = 3
    /\ IsTokenOf(out[Len(out)], "EOF") /\ LineOf(Len(out)) = 4

-----------------------------------------------------------------------------
(* The progress of a scan *)

\* the calls of next() the stream has left before it returns None: one for
\* each character at most, and one for the EOF token
Remaining == IF at_end THEN 0 ELSE Len(chars) + 1

\* what one call of next() does to the stream
ScanProgress ==
    /\ (~at_end /\ chars # <<>>) =>
          /\ Len(chars') < Len(chars)
          /\ \E n \in 1..Len(chars) : chars' = SubSeq(chars, n + 1, Len(chars))
          /\ ~at_end'
    /\ (~at_end /\ chars = <<>>) =>
          /\ at_end'
          /\ chars' = <<>>
          /\ out' = Append(out, ScanOk(new_eof(line)))
    /\ ~at_end => Remaining' < Remaining
    /\ at_end =>
          /\ UNCHANGED <<chars, lead, line, at_end, out>>
          /\ nones' = nones + 1
    /\ lead' = NoChar
    /\ Len(out') <= Len(out) + 1

\* between two calls
ScanBounded ==
    /\ lead = NoChar
    /\ Len(out) <= Len(src) + 1
    /\ Len(out) + Remaining <= Len(src) + 1
    /\ nones > 0 => at_end
    /\ \A k \in 1..Len(out) :
          IF FromChar(k) THEN upto[k] >= Start(k)
          ELSE k = Len(out) /\ at_end /\ IsTokenOf(out[k], "EOF")

\* C29: a scan terminates.  A call of next() before the end consumes at
\* least one character of the source or, when none is left, returns the EOF
\* token and sets at_end, so the number of calls the stream has left goes
\* down with every call; a call after the end returns None and changes
\* nothing.  A source of n characters gives at most n + 1 items before
\* None, and the slot lead is empty between two calls.
C29_ScanTerminates == []ScanBounded /\ [][ScanProgress]_vars

\* a source of n characters that gives n + 1 items: one for each character
\* and the EOF token, then None
C29_Witness ==
    /\ at_end
    /\ nones > 0
    /\ Len(src) = MaxLen
    /\ Len(out) = Len(src) + 1
    /\ Remaining = 0
    /\ lead = NoChar

====
